---- MODULE Spec2Model ----
(***************************************************************************)
(* A state-machine model of the OAuth2 orchestration engine of the portal  *)
(* authorization server: the per-auth-method router (authorize and token   *)
(* end points, the CSRF-protected POST continuations), the scope           *)
(* validation, the gateway delegation and the profile store.               *)
(*                                                                         *)
(* Strings that the code takes apart (the scope parameter) are sequences   *)
(* of symbols; every other string is an opaque TLA+ string.  A JavaScript  *)
(* value that is undefined, null or the empty string is the value Nil      *)
(* where the code only tests it for truthiness.                            *)
(***************************************************************************)
EXTENDS Naturals, Sequences, FiniteSets, TLC

\* ------------------------------------------------------------------------
\* Bounds of the model
\* ------------------------------------------------------------------------

\* longest scope parameter, in symbols, that the scope validation is run on
MaxScopeLen == 3

\* ------------------------------------------------------------------------
\* Program constants
\* ------------------------------------------------------------------------

ERROR_TIMEOUT == 500
EXTERNAL_URL_INTERVAL == 500
EXTERNAL_URL_RETRIES == 10

\* ------------------------------------------------------------------------
\* Basic values
\* ------------------------------------------------------------------------

\* undefined / null / '' of a field that the code only tests for truthiness
Nil == "nil"

\* The symbols a scope parameter is made of.  "r", "w" and "d" are letters
\* of scope names, " " is the separator, and "constructor" stands for the
\* whole name of a property every JavaScript object inherits.
SP == " "
PROTO == "constructor"
ScopeSymbol == {"r", "w", "d", PROTO, SP}

\* a scope parameter that was not passed at all (req.query.scope undefined)
Undefined == <<"undefined">>

RECURSIVE SeqsUpTo(_, _)
SeqsUpTo(S, n) ==
    IF n = 0 THEN {<<>>}
    ELSE LET shorter == SeqsUpTo(S, n - 1)
         IN  shorter \cup {Append(s, x) : s \in {t \in shorter : Len(t) = n - 1}, x \in S}

Range(s) == {s[i] : i \in 1..Len(s)}

\* what indexing a string gives: its characters, each a string of its own
Chars(s) == [i \in 1..Len(s) |-> <<s[i]>>]

\* String.prototype.split(' '): the pieces between the separators, the
\* empty pieces included ("r  w" gives "r", "", "w"; "" gives one piece "").
RECURSIVE SplitFrom(_, _, _)
SplitFrom(s, i, cur) ==
    IF i > Len(s) THEN <<cur>>
    ELSE IF s[i] = SP THEN <<cur>> \o SplitFrom(s, i + 1, <<>>)
    ELSE SplitFrom(s, i + 1, Append(cur, s[i]))

Split(s) == SplitFrom(s, 1, <<>>)

\* ------------------------------------------------------------------------
\* Errors (utils-fail) and HTTP responses
\* ------------------------------------------------------------------------

NoError == [status |-> 0, oauthError |-> Nil, message |-> Nil]

\* failMessage(status, message, callback): a plain error, no OAuth2 kind
failMessage(status, message) ==
    [status |-> status, oauthError |-> Nil, message |-> message]

\* failOAuth(status, error, description, callback): an OAuth2 error
failOAuth(status, error, message) ==
    [status |-> status, oauthError |-> error, message |-> message]

\* an error a collaborator call (portal, gateway, store) came back with
upstreamError(status) ==
    [status |-> status, oauthError |-> Nil, message |-> "upstream"]

\* the error resolvePassthroughScope calls back with: the error of the
\* request, or makeError(..., res.statusCode) for an answer that is not 2xx
scopeServiceError(ext) ==
    IF ext.kind = "503" THEN upstreamError(503) ELSE upstreamError(0)

\* failError(status, err, callback): passes err on; the status given is
\* used when err carries none
failError(status, err) ==
    IF err.status # 0 THEN err ELSE [err EXCEPT !.status = status]

\* ------------------------------------------------------------------------
\* Scope validation (utils-oauth2)
\* ------------------------------------------------------------------------

\* The scope catalogues (api.settings.scopes, in key order) the model uses.
Catalogues == {<<>>, << <<"r">> >>, << <<"r">>, <<"w">> >>, << <<"w">>, <<"r", "w">> >>}

\* names every JavaScript object answers to without owning them
ObjectPrototypeKeys == {<<PROTO>>}

\* apiScopes[name] is truthy: an own key of the catalogue (its value is an
\* object), or a property inherited from Object.prototype
HasScope(apiScopes, name) ==
    name \in Range(apiScopes) \/ name \in ObjectPrototypeKeys

\* the result handed to the callback of validateApiScopes
ScopeResult(err, differ, validated) ==
    [err |-> err, scopesDiffer |-> differ, validatedScopes |-> validated]

\* what wicked.apiGet('apis/<id>') came back with in getApiScopes:
\* kind "ok" with the catalogue, "err" (transport error) or "nosettings"
ApiFetch(kind, apiScopes) == [kind |-> kind, apiScopes |-> apiScopes]

\* the first requested scope the catalogue does not know, 0 when all are known
RECURSIVE FirstUnknown(_, _, _)
FirstUnknown(apiScopes, scopes, i) ==
    IF i > Len(scopes) THEN 0
    ELSE IF ~HasScope(apiScopes, scopes[i]) THEN i
    ELSE FirstUnknown(apiScopes, scopes, i + 1)

\* a validation that treats a trusted subscription like any other
validateApiScopesNoTrust(fetch, scope, subIsTrusted) ==
    IF fetch.kind # "ok"
    THEN ScopeResult(failError(500, upstreamError(0)), FALSE, <<>>)
    ELSE LET scopes == IF scope = Undefined \/ scope = <<>> THEN <<>> ELSE Split(scope)
         IN  IF FirstUnknown(fetch.apiScopes, scopes, 1) # 0
             THEN ScopeResult(failMessage(400, "Invalid or unknown scope"), FALSE, <<>>)
             ELSE ScopeResult(NoError, FALSE, scopes)

validateApiScopes(fetch, scope, subIsTrusted) ==
    IF fetch.kind # "ok"
    THEN \* getApiScopes errored, or the API has no settings section
         ScopeResult(failError(500, upstreamError(0)), FALSE, <<>>)
    ELSE LET requestScope == IF scope = Undefined THEN <<>> ELSE scope
             scopes == IF requestScope # <<>> THEN Split(requestScope) ELSE <<>>
         IN  IF ~subIsTrusted
             THEN IF FirstUnknown(fetch.apiScopes, scopes, 1) # 0
                  THEN ScopeResult(failMessage(400, "Invalid or unknown scope"), FALSE, <<>>)
                  ELSE ScopeResult(NoError, FALSE, scopes)
             ELSE ScopeResult(NoError, TRUE, fetch.apiScopes)

\* ------------------------------------------------------------------------
\* State
\* ------------------------------------------------------------------------

VARIABLES
    sv,             \* one run of the scope validation: its input and result
    world,          \* what the portal and the gateway hold about the API,
                    \* the subscription and the application (read-only)
    session,        \* the session of the one browser, for this auth method
    portal,         \* durable state of the portal API: users, grants,
                    \* registrations, verifications
    gateway,        \* the gateway's codes and tokens
    profileStore,   \* profile store: code / token -> profile
    pending,        \* the request in flight that waits for the profile store
    resp,           \* the HTTP response written last
    calls,          \* the collaborator calls the last request made
    hist,           \* what has been handed out or accepted so far
    cache           \* the per-API caches of the process, and the calls of
                    \* their getters that are under way

vars == <<sv, world, session, portal, gateway, profileStore, pending, resp, calls, hist,
          cache>>

\* ------------------------------------------------------------------------
\* The per-API caches: _oauth2Configs, _kongApis, _portalApis (module level,
\* kong-oauth2/oauth2.ts) and _apiScopes (of the one UtilsOAuth2 instance)
\* ------------------------------------------------------------------------

\* most calls of a getter in one behaviour
MaxRequests == 3

Requests == 1..MaxRequests

CacheKinds == {"oauth2Config", "kongApi", "portalApi", "apiScopes"}

ApiIds == {"api1", "api2"}

\* a slot of a cache map that was never written reads as undefined
NoEntry == [defined |-> FALSE, kind |-> Nil, api |-> Nil, body |-> Nil]

\* what a successful fetch hands over: the whole body the upstream sent for
\* this API id ("none" is the {} kept for an API without scopes)
Entry(kind, apiId, body) == [defined |-> TRUE, kind |-> kind, api |-> apiId, body |-> body]

\* a call of a getter that has not started
NoRequest ==
    [phase |-> "idle", kind |-> Nil, api |-> Nil, afterFill |-> FALSE, fetched |-> FALSE,
     err |-> FALSE, value |-> NoEntry]

\* the process right after its start: nothing cached, nothing under way,
\* no fill completed
ColdCache ==
    [store |-> [k \in CacheKinds |-> [a \in ApiIds |-> NoEntry]],
     reqs |-> [r \in Requests |-> NoRequest],
     filled |-> {}]

\* the outcome of a getter's callback: the error or the value for the
\* caller, and the cache map as the callback leaves it
Got(err, value, map) == [err |-> err, value |-> value, map |-> map]

\* what the upstream can answer to the fetch of each getter
FetchAnswers(kind) ==
    CASE kind = "oauth2Config" -> {"ok", "err", "noplugin", "nokey"}
      [] kind = "apiScopes" -> {"ok", "err", "nosettings", "noscopes"}
      [] OTHER -> {"ok", "err"}

\* the check each getter starts with: if (cache[apiId]) return callback(...)
cacheHit(map, apiId) == map[apiId].defined

\* getOAuth2Config, the callback of kongGet: an error, no oauth2 plugin or
\* no provision_key fails and stores nothing
getOAuth2Config(map, apiId, answer) ==
    IF answer # "ok"
    THEN Got(TRUE, NoEntry, map)
    ELSE LET config == Entry("oauth2Config", apiId, "config")
         IN  Got(FALSE, config, [map EXCEPT ![apiId] = config])

\* a getKongApi whose callback stores what kongGet handed over before it
\* looks at the error
getKongApiStoreFirst(map, apiId, answer) ==
    LET apiData == IF answer = "ok" THEN Entry("kongApi", apiId, "descriptor") ELSE NoEntry
    IN  Got(answer # "ok", apiData, [map EXCEPT ![apiId] = apiData])

\* getKongApi, the callback of kongGet
getKongApi(map, apiId, answer) ==
    IF answer # "ok"
    THEN Got(TRUE, NoEntry, map)
    ELSE LET apiData == Entry("kongApi", apiId, "descriptor")
         IN  Got(FALSE, apiData, [map EXCEPT ![apiId] = apiData])

\* getPortalApi, the callback of wicked.apiGet
getPortalApi(map, apiId, answer) ==
    IF answer # "ok"
    THEN Got(TRUE, NoEntry, map)
    ELSE LET apiData == Entry("portalApi", apiId, "descriptor")
         IN  Got(FALSE, apiData, [map EXCEPT ![apiId] = apiData])

\* getApiScopes, the callback of wicked.apiGet: an error or an API without
\* settings fails and stores nothing; settings without scopes store {}
getApiScopes(map, apiId, answer) ==
    IF answer \in {"err", "nosettings"}
    THEN Got(TRUE, NoEntry, map)
    ELSE LET scopes == Entry("apiScopes", apiId, IF answer = "noscopes" THEN "none" ELSE "scopes")
         IN  Got(FALSE, scopes, [map EXCEPT ![apiId] = scopes])

\* the callback of the fetch of the getter of one cache
fetchCallback(kind, map, apiId, answer) ==
    CASE kind = "oauth2Config" -> getOAuth2Config(map, apiId, answer)
      [] kind = "kongApi" -> getKongApi(map, apiId, answer)
      [] kind = "portalApi" -> getPortalApi(map, apiId, answer)
      [] OTHER -> getApiScopes(map, apiId, answer)

\* ------------------------------------------------------------------------
\* Values of the state
\* ------------------------------------------------------------------------

\* most codes and tokens the gateway mints in one behaviour
MaxMint == 2

\* most pages with a CSRF token or nonce rendered in one behaviour
MaxRender == 2

CID == "CID"
SECRET == "S"
REDIRECT == "https://c.example/cb"
\* the registered URI as a client may also write it, and a URI of somebody
\* else
REDIRECT_SLASH == "https://c.example/cb/"
ELSEWHERE == "https://evil.example/cb"
USER == "u1"
\* the auth_method of every request of this router: server_name ':' authMethodId
AUTH_METHOD == "portal-auth:local"
OTHER_METHOD == "portal-auth:google"
POOL == "pool"

\* OidcProfile; NoProfile stands for a profile that is undefined or null
\* sub is a string that the code concatenates into authenticated_userid: a
\* sequence of pieces
Profile(sub, email, name) == [defined |-> TRUE, sub |-> sub, email |-> email, name |-> name]
NoProfile == [defined |-> FALSE, sub |-> <<>>, email |-> Nil, name |-> Nil]

\* keys of the profile store and of the gateway
CodeKey(n) == <<"code", n>>
AccessKey(n) == <<"at", n>>
RefreshKey(n) == <<"rt", n>>
NoKey == <<"none", 0>>
\* the gateway numbers what it mints from 1; number 0 is a code or token a
\* client made up
Keys == {"code", "at", "rt"} \X (0..MaxMint)

\* AuthRequest of the session (types.ts); defined = FALSE is "no AuthRequest".
\* scope is a list of scope names; scopeKind says what the code holds: the
\* "list" the validation made, the "string" of the query (the list is then
\* what indexing the string gives, its characters) or "undefined".
NoAuthRequest ==
    [defined |-> FALSE, api_id |-> Nil, client_id |-> Nil, response_type |-> Nil,
     redirect_uri |-> Nil, state |-> Nil, scope |-> <<>>, scopeKind |-> "undefined",
     prompt |-> Nil,
     namespace |-> Nil, trusted |-> FALSE, scopesDiffer |-> FALSE, plain |-> FALSE,
     app_id |-> Nil, validNamespaces |-> [defined |-> FALSE, list |-> <<>>]]

\* AuthResponse of the session; defined = FALSE is "not logged in"
NoAuthResponse ==
    [defined |-> FALSE, userId |-> Nil, customId |-> Nil, defaultProfile |-> NoProfile,
     defaultGroups |-> <<>>, registrationPool |-> Nil, profile |-> NoProfile, groups |-> <<>>]

NoGrantData == [defined |-> FALSE, missingGrants |-> <<>>, existingGrants |-> <<>>]

\* an HTTP response: kind is "none", "redirect", "json" or "render"; body says
\* what it carries ("token", "profile", "code", "error", or the view
\* rendered), key and refresh are the code or tokens in it, profile the
\* profile in it, grant and code what the token request asked with, token the
\* CSRF token and nonce of a page (0: none), delayed whether it was held
\* back by setTimeout and delay for how many milliseconds, description the
\* message of the error it reports (error_description, or the message of
\* the error page), location the URI a redirect goes to, without its query
Response(kind, status, error, delayed, body, key) ==
    [kind |-> kind, status |-> status, error |-> error, delayed |-> delayed,
     delay |-> IF delayed THEN ERROR_TIMEOUT ELSE 0,
     body |-> body, key |-> key, refresh |-> NoKey, profile |-> NoProfile,
     grant |-> Nil, code |-> NoKey, token |-> 0, description |-> Nil, location |-> Nil]
NoResponse == Response("none", 0, Nil, FALSE, Nil, NoKey)

NoPending == [kind |-> "none", key |-> NoKey, refresh |-> NoKey, profile |-> NoProfile, then |-> NoResponse]

\* authenticated_userid: a string the code builds by concatenation, so a
\* sequence of pieces ("sub=", the user id, ";namespace=", ...); the empty
\* sequence is a missing one
NoUserId == <<>>

\* `${x}` of a user id or sub that may be null
Interpolate(x) == IF x = Nil THEN <<"null">> ELSE <<x>>

\* TokenRequest (makeTokenRequest): the body of POST /api/:apiId/token
TokenRequest(grant, client, secret, code, scope, username, password, refresh) ==
    [grant_type |-> grant, client_id |-> client, client_secret |-> secret, code |-> code,
     scope |-> scope, username |-> username, password |-> password,
     refresh_token |-> refresh, authenticated_userid |-> NoUserId, session_data |-> NoProfile]

NoTokenRequest == TokenRequest(Nil, Nil, Nil, NoKey, Undefined, Nil, Nil, NoKey)

\* AccessToken: what the gateway's token end point answers, plus session_data
AccessToken(n, withRefresh) ==
    [access_token |-> AccessKey(n),
     refresh_token |-> IF withRefresh THEN RefreshKey(n) ELSE NoKey,
     session_data |-> NoProfile]
NoAccessToken == [access_token |-> NoKey, refresh_token |-> NoKey, session_data |-> NoProfile]

\* a collaborator call: to is "gw.authorize", "gw.token", "idp.ui",
\* "idp.userpass", "idp.refresh", "ext.scope", "portal.write" or "store.register"
\* asked is the scope of the AuthRequest the call was made for, target the
\* application and API in the path of a write of grants, answered
\* what the passthrough scope service answered the call with
Call(to, grant, userid, scope) ==
    [to |-> to, grant |-> grant, userid |-> userid, scope |-> scope, asked |-> <<>>,
     target |-> <<>>,
     answered |-> [kind |-> "none", allow |-> "undefined", authenticated_userid |-> <<>>,
                   authenticated_scope |-> <<>>]]

CallsTo(cs, to) == {c \in cs : c.to = to}

\* ------------------------------------------------------------------------
\* The gateway: an external collaborator, seen through the two calls the
\* server makes (postAuthorizeRequest, postTokenRequest)
\* ------------------------------------------------------------------------

\* the gateway's own check of the client's credentials on /oauth2/token
KongAcceptsClient(w, body) ==
    /\ body.client_id = CID
    /\ \/ body.client_secret = SECRET
       \/ body.client_secret = Nil /\ ~w.confidential
             /\ body.grant_type \in {"password", "refresh_token"}

GwTokenOfRefresh(gw, key) == {t \in gw.tokens : t.refresh /\ RefreshKey(t.n) = key}

\* whether the gateway mints for this body of POST /oauth2/token
KongTokenAccepts(w, gw, body) ==
    /\ KongAcceptsClient(w, body)
    /\ body.grant_type = "authorization_code" =>
           \E c \in gw.codes : CodeKey(c.n) = body.code
    /\ body.grant_type = "refresh_token" => GwTokenOfRefresh(gw, body.refresh_token) # {}

\* the gateway after minting for this body
KongTokenMint(gw, body) ==
    LET g == body.grant_type
        code == CHOOSE c \in gw.codes : CodeKey(c.n) = body.code
        old == CHOOSE t \in gw.tokens : t.refresh /\ RefreshKey(t.n) = body.refresh_token
        new == [n |-> gw.next,
                refresh |-> g # "client_credentials",
                userid |-> CASE g = "authorization_code" -> code.userid
                             [] g = "refresh_token" -> old.userid
                             [] g = "password" -> body.authenticated_userid
                             [] OTHER -> NoUserId,
                scope |-> CASE g = "authorization_code" -> code.scope
                            [] g = "refresh_token" -> old.scope
                            [] OTHER -> body.scope]
    IN  [codes |-> IF g = "authorization_code" THEN gw.codes \ {code} ELSE gw.codes,
         tokens |-> (IF g = "refresh_token" THEN gw.tokens \ {old} ELSE gw.tokens) \cup {new},
         next |-> gw.next + 1]

\* whether the gateway mints for this body of POST /oauth2/authorize
KongAuthorizeAccepts(w, gw, body) ==
    body.client_id = CID

\* the gateway after a successful POST /oauth2/authorize
KongAuthorizeMint(gw, body) ==
    IF body.response_type = "code"
    THEN [gw EXCEPT !.codes = @ \cup {[n |-> gw.next, userid |-> body.authenticated_userid,
                                      scope |-> body.scope]},
                    !.next = @ + 1]
    ELSE [gw EXCEPT !.tokens = @ \cup {[n |-> gw.next, refresh |-> FALSE,
                                       userid |-> body.authenticated_userid,
                                       scope |-> body.scope]},
                    !.next = @ + 1]

\* What a collaborator does in one request, chosen by the environment:
\*   gw      "up", "down" (the HTTP call to the gateway errors) or "reject"
\*           (the gateway answers with an error status of its own accord)
\*   reject  the status the gateway rejects a request with
\*   store   "ok" or "err": profile store operations inside the handler
\*   portal  "ok" or "err": portal API calls
\*   idp     "ok" or "err": what the IdP's checks answer besides wrong credentials
\*   ext     the answer of the passthrough scope service
Env(gw, reject, store, prt, idp, ext) ==
    [gw |-> gw, reject |-> reject, store |-> store, portal |-> prt, idp |-> idp, ext |-> ext]

\* KongOAuth2Config: the grants the configuration of the gateway's oauth2
\* plugin enables for the API
KongOAuth2Config(clientCredentials, implicit, authorizationCode, password) ==
    [enable_client_credentials |-> clientCredentials, enable_implicit_grant |-> implicit,
     enable_authorization_code |-> authorizationCode, enable_password_grant |-> password]

AllGrants == KongOAuth2Config(TRUE, TRUE, TRUE, TRUE)

\* What the portal and the gateway are configured with: the API's scope
\* catalogue and passthrough settings, the subscription's trusted flag, the
\* application's confidential flag, the auth method's registration pool, the
\* oauth2 plugin's configuration (every grant enabled unless said otherwise),
\* whether the pool requires namespaces (not unless said otherwise).
World(apiScopes, trusted, confidential, ptUsers, ptScopeUrl, pool, groups) ==
    [apiScopes |-> apiScopes, trusted |-> trusted, confidential |-> confidential,
     passthroughUsers |-> ptUsers, passthroughScopeUrl |-> ptScopeUrl,
     registrationPool |-> pool, groups |-> groups, oauth2Config |-> AllGrants,
     requiresNamespace |-> FALSE,
     authMethods |-> [defined |-> TRUE, list |-> {AUTH_METHOD}]]

\* the session as express-session creates it: no AuthRequest, nobody logged in
NewSession ==
    [authRequest |-> NoAuthRequest, authResponse |-> NoAuthResponse,
     grantData |-> NoGrantData, csrfToken |-> 0, registrationNonce |-> 0,
     registrationData |-> FALSE]

\* the portal's durable state: the scopes the user granted to the application
\* for the API, whether the user has a registration in the pool, whether the
\* user's e-mail is validated, and the open verification records; federated
\* says whether the user record carries the identity provider's customId,
\* returned lists the user ids the portal has answered a request with;
\* deleting are the verification ids a DELETE is on its way for, patches
\* the verification ids the user record was patched with, in order
NewPortal ==
    [userExists |-> TRUE, grants |-> <<>>, registered |-> FALSE, validated |-> FALSE,
     verifications |-> {}, lookups |-> {}, namespaces |-> <<>>, poolNamespaces |-> {},
     lookup404 |-> FALSE, federated |-> TRUE, returned |-> {},
     deleting |-> {}, patches |-> <<>>]

NewGateway == [codes |-> {}, tokens |-> {}, next |-> 1]

NewProfileStore == [k \in Keys |-> NoProfile]

\* What the client has been given and what became of it: issued are the
\* codes and tokens of authorize redirects with the session's profile of that
\* moment, exchanged the (code, token) pairs of answered code exchanges,
\* handed every code and token a response carried, revoked the tokens the
\* server deleted, accepted the CSRF tokens and nonces a POST was let through
\* with and not answered with a server error, reused the kinds ("csrf", "nonce") of which a value was let through
\* twice, rendered the number of tokens and nonces made up so far, last the
\* route of the last request, whether the token it posted matched, the
\* body it posted to the token end point and what its form posted besides
\* the token (the action, the namespace, the e-mail address).
\* pages are the login and consent pages the browser was shown, each with
\* the AuthRequest it was rendered for (the browser may keep several open, in
\* tabs), submitted the page whose form the last request posted; both are
\* kept only by the specifications that follow the pages.
NoPage == [view |-> Nil, token |-> 0, request |-> NoAuthRequest, listed |-> <<>>]

NewHist ==
    [issued |-> {}, exchanged |-> {}, handed |-> {}, revoked |-> {}, accepted |-> {},
     reused |-> {}, rendered |-> 0, pages |-> {}, submitted |-> NoPage,
     last |-> [route |-> Nil, matched |-> FALSE, request |-> NoTokenRequest,
              posted |-> Nil]]

\* ------------------------------------------------------------------------
\* Specification SpecScope: the scope validation on its own
\* ------------------------------------------------------------------------

ScopeStrings == SeqsUpTo(ScopeSymbol, MaxScopeLen) \cup {Undefined}

ApiFetches ==
    {ApiFetch("ok", c) : c \in Catalogues} \cup {ApiFetch("err", <<>>), ApiFetch("nosettings", <<>>)}

NoScopeResult == ScopeResult(NoError, FALSE, <<>>)

InitScope ==
    /\ sv \in {[fetch |-> f, scope |-> s, trusted |-> t, done |-> FALSE, result |-> NoScopeResult] :
                  f \in ApiFetches, s \in ScopeStrings, t \in BOOLEAN}
    /\ world = World(<<>>, FALSE, FALSE, FALSE, FALSE, Nil, <<>>)
    /\ session = NewSession
    /\ portal = NewPortal
    /\ gateway = NewGateway
    /\ profileStore = NewProfileStore
    /\ pending = NoPending
    /\ resp = NoResponse
    /\ calls = {}
    /\ hist = NewHist
    /\ cache = ColdCache

\* one call of validateApiScopes(apiId, scope, subIsTrusted, callback)
ValidateScopes ==
    /\ ~sv.done
    /\ sv' = [sv EXCEPT !.done = TRUE,
                        !.result = validateApiScopes(sv.fetch, sv.scope, sv.trusted)]
    /\ UNCHANGED <<cache, world, session, portal, gateway, profileStore, pending, resp, calls, hist>>

NextScope == ValidateScopes

SpecScope == InitScope /\ [][NextScope]_vars

\* C6: with a trusted subscription the validated scope list is exactly the
\* whole catalogue of the API and scopesDiffer is true, whatever scope string
\* was requested.
C6_TrustedGetsFullCatalogue ==
    (sv.done /\ sv.trusted /\ sv.fetch.kind = "ok") =>
        /\ sv.result.err = NoError
        /\ sv.result.validatedScopes = sv.fetch.apiScopes
        /\ sv.result.scopesDiffer = TRUE

\* a trusted validation that asked for a scope outside a non-empty catalogue
C6_Witness ==
    /\ sv.done /\ sv.trusted /\ sv.fetch.kind = "ok"
    /\ sv.fetch.apiScopes = << <<"r">>, <<"w">> >>
    /\ sv.scope = <<"d", SP, "r">>
    /\ sv.result.validatedScopes = << <<"r">>, <<"w">> >>

\* ------------------------------------------------------------------------
\* The gateway adapter (kong-oauth2/oauth2.ts): the token end point
\* ------------------------------------------------------------------------

\* the result of oauth2.token and of the grant functions built on it
TokenResult(err, accessToken, gw, cs, delayed) ==
    [err |-> err, accessToken |-> accessToken, gateway |-> gw, calls |-> cs,
     delayed |-> delayed, revoked |-> {}]

\* validateClientCredentials, validateTokenAuthorizationCode,
\* validatePasswordGrant, validateRefreshToken
validateGrant(tr) ==
    IF tr.client_id = Nil
    THEN failOAuth(400, "invalid_request", "client_id is missing")
    ELSE IF tr.grant_type \in {"client_credentials", "authorization_code"} /\ tr.client_secret = Nil
    THEN failOAuth(400, "invalid_request", "client_secret is missing")
    ELSE IF tr.grant_type = "authorization_code" /\ tr.code = NoKey
    THEN failOAuth(400, "invalid_request", "code is missing")
    ELSE IF tr.grant_type = "password" /\ tr.authenticated_userid = NoUserId
    THEN failOAuth(400, "invalid_request", "authenticated_userid is missing")
    ELSE IF tr.grant_type = "refresh_token" /\ tr.refresh_token = NoKey
    THEN failOAuth(400, "invalid_request", "refresh_token is missing")
    ELSE NoError

\* lookupSubscription: the portal knows one subscription, the one of CID
lookupSubscription(tr, env) ==
    IF env.portal # "ok" \/ tr.client_id # CID
    THEN failOAuth(403, "unauthorized_client", "invalid client_id")
    ELSE NoError

\* a check that asks every application for its client_secret and nothing else
validateTokenClientCredentialsLax(w, tr) ==
    IF tr.grant_type \in {"password", "refresh_token"}
    THEN NoError
    ELSE IF tr.client_secret = Nil
         THEN failOAuth(400, "unauthorized_client", "client_secret is missing")
         ELSE NoError

validateTokenClientCredentials(w, tr) ==
    IF tr.grant_type \in {"password", "refresh_token"}
    THEN IF ~w.confidential
         THEN IF tr.client_secret # Nil
              THEN failOAuth(403, "unauthorized_client", "client_secret is being passed")
              ELSE NoError
         ELSE IF tr.client_secret = Nil
              THEN failOAuth(403, "unauthorized_client", "client_secret is missing")
              ELSE NoError
    ELSE IF ~w.confidential
         THEN failOAuth(403, "unauthorized_client", "not a confidential application")
         ELSE IF tr.client_secret = Nil
              THEN failOAuth(400, "unauthorized_client", "client_secret is missing")
              ELSE NoError

\* getTokenRequest: the body posted to the gateway ("Kong is very picky":
\* an empty scope is left out, which for a list means an empty string)
getTokenRequest(tr) ==
    [grant_type |-> tr.grant_type, client_id |-> tr.client_id,
     client_secret |-> tr.client_secret, code |-> tr.code,
     refresh_token |-> tr.refresh_token,
     authenticated_userid |-> tr.authenticated_userid, scope |-> tr.scope]

\* postTokenRequest, with the adapters' copy of session_data on success
postTokenRequest(w, gw, tr, env) ==
    LET body == getTokenRequest(tr)
        call == Call("gw.token", body.grant_type, body.authenticated_userid, body.scope)
    IN  IF env.gw = "down"
        THEN TokenResult(failOAuth(500, "server_error", "calling kong token endpoint returned an error"),
                         NoAccessToken, gw, {call}, FALSE)
        ELSE IF env.gw = "reject" \/ ~KongTokenAccepts(w, gw, body)
        THEN TokenResult(failOAuth(env.reject,
                                   IF KongAcceptsClient(w, body) THEN "invalid_grant" ELSE "invalid_client",
                                   "gateway"),
                         NoAccessToken, gw, {call}, FALSE)
        ELSE TokenResult(NoError,
                         [AccessToken(gw.next, body.grant_type # "client_credentials")
                             EXCEPT !.session_data =
                                 IF tr.grant_type = "authorization_code" THEN NoProfile
                                 ELSE tr.session_data],
                         KongTokenMint(gw, body), {call}, FALSE)

\* a lookupApi that lets every auth method through
lookupApiAnyMethod(w) ==
    NoError

\* lookupApi: the auth method of the request must be one of the authMethods
\* of the portal's API descriptor
lookupApi(w) ==
    IF ~w.authMethods.defined
    THEN failOAuth(500, "server_error", "api does not have any authMethods configured")
    ELSE IF AUTH_METHOD \notin w.authMethods.list
    THEN failOAuth(500, "unauthorized_client", "auth method is not allowed for api")
    ELSE NoError

\* a gateway that is asked whatever the plugin's configuration says
grantEnabledAlways(oauth2Config, grant) ==
    TRUE

\* the check the grant's invoker makes before it calls the gateway
\* (authorizeImplicitKong, authorizeAuthorizationCodeKong,
\* tokenAuthorizationCodeKong, tokenClientCredentialsKong,
\* tokenPasswordGrantKong); tokenRefreshTokenKong makes none
grantEnabled(oauth2Config, grant) ==
    CASE grant = "token" -> oauth2Config.enable_implicit_grant
      [] grant \in {"code", "authorization_code"} -> oauth2Config.enable_authorization_code
      [] grant = "client_credentials" -> oauth2Config.enable_client_credentials
      [] grant = "password" -> oauth2Config.enable_password_grant
      [] OTHER -> TRUE

\* oauth2.token: validateGrantType, the grant's validation, then tokenFlow
oauth2_token(w, gw, tr, env) ==
    LET fail(err) == TokenResult(err, NoAccessToken, gw, {}, FALSE)
    IN
    IF tr.grant_type \notin {"authorization_code", "client_credentials", "refresh_token", "password"}
    THEN fail(failOAuth(400, "invalid_request", "invalid grant_type"))
    ELSE IF validateGrant(tr) # NoError THEN fail(validateGrant(tr))
    ELSE IF lookupSubscription(tr, env) # NoError THEN fail(lookupSubscription(tr, env))
    ELSE IF validateTokenClientCredentials(w, tr) # NoError
    THEN fail(validateTokenClientCredentials(w, tr))
    ELSE IF lookupApi(w) # NoError THEN fail(lookupApi(w))
    ELSE IF ~grantEnabled(w.oauth2Config, tr.grant_type)
    THEN fail(failOAuth(403, "unauthorized_client", "The API is not configured for the grant"))
    ELSE postTokenRequest(w, gw, tr, env)


\* ------------------------------------------------------------------------
\* The profile store (profile-store.ts)
\* ------------------------------------------------------------------------

\* registerTokenOrCode(token, apiId, profile): the access token and its
\* refresh token, or the code, map to the profile
registerTokenOrCode(store, key, refresh, profile) ==
    [k \in Keys |-> IF k = key \/ (refresh # NoKey /\ k = refresh) THEN profile ELSE store[k]]

\* retrieve(key): the profile, or none
retrieve(store, key) == IF key \in Keys THEN store[key] ELSE NoProfile

deleteTokenOrCode(store, key) ==
    [k \in Keys |-> IF k = key THEN NoProfile ELSE store[k]]

\* ------------------------------------------------------------------------
\* The users: the portal's user record and the identity provider
\* ------------------------------------------------------------------------

PASSWORD == "pw"

\* wickedUserInfoToOidcProfile(userInfo) of the one user the portal knows
WickedProfile == Profile(<<USER>>, "u1@example.org", Nil)

\* makeOidcProfile: that profile with the claims mapped from the registration
RegisteredProfile == Profile(<<USER>>, "u1@example.org", "User One")

\* the default profile the identity provider makes up for that user
IdpProfile == Profile(<<"idp:u1">>, "u1@idp.example", "U. One")

\* the AuthResponse of the identity provider for the user; whether it
\* carries a profile of its own is up to the provider
\* (env.idp "custom": it knows the user by its own id only, "anonymous":
\* it passes no id at all)
IdpAuthResponse(env) ==
    [defined |-> TRUE,
     userId |-> IF env.idp \in {"custom", "anonymous"} THEN Nil ELSE USER,
     customId |-> IF env.idp = "anonymous" THEN Nil ELSE "idp:u1",
     defaultProfile |-> IdpProfile, defaultGroups |-> <<>>, registrationPool |-> Nil,
     profile |-> IF env.idp = "okprofile" THEN IdpProfile ELSE NoProfile,
     groups |-> <<>>]

\* idp.authorizeByUserPass(username, password, callback) answers an error
idpRejectsUserPass(tr, env) ==
    env.idp = "err" \/ tr.username # USER \/ tr.password # PASSWORD

\* what checkUserFromAuthResponse calls back with, and the portal it leaves
Checked(err, authResponse, prt) == [err |-> err, authResponse |-> authResponse, portal |-> prt]

\* createUserFromDefaultProfile: POST /users makes the user record with the
\* customId, and a verification request for the e-mail address, which the
\* default profile does not call verified
createUserFromDefaultProfile(prt) ==
    [prt EXCEPT !.userExists = TRUE, !.federated = TRUE, !.grants = <<>>,
                !.registered = FALSE, !.validated = FALSE, !.namespaces = <<>>,
                !.verifications = @ \cup {"v1"},
                !.returned = @ \cup {USER}]

\* a reconciliation that takes the identity provider's word for the user
\* id and asks the portal nothing
checkUserFromAuthResponseUnchecked(w, prt, authResponse) ==
    IF w.passthroughUsers
    THEN Checked(NoError, [authResponse EXCEPT !.userId = Nil, !.groups = <<>>], prt)
    ELSE Checked(NoError, [authResponse EXCEPT !.userId = USER, !.profile = WickedProfile,
                                               !.groups = w.groups], prt)

\* checkUserFromAuthResponse: the portal's user is loaded by the userId, or
\* found by the customId, or created; err is set when the portal has no such
\* user, when it has a user of that e-mail address without the customId
\* (409), and when the identity provider passed neither id
checkUserFromAuthResponse(w, prt, authResponse) ==
    LET loadWickedUser(p, userId, groups) ==
            IF ~p.userExists
            THEN Checked(upstreamError(404), authResponse, p)
            ELSE Checked(NoError,
                         [authResponse EXCEPT !.userId = userId, !.profile = WickedProfile,
                                              !.groups = groups],
                         [p EXCEPT !.returned = @ \cup {userId}])
    IN  IF w.passthroughUsers
        THEN Checked(NoError, [authResponse EXCEPT !.userId = Nil, !.groups = <<>>], prt)
        ELSE IF authResponse.userId # Nil
        THEN loadWickedUser(prt, authResponse.userId, w.groups)
        ELSE IF authResponse.customId # Nil
        THEN IF prt.userExists /\ prt.federated
             THEN loadWickedUser([prt EXCEPT !.returned = @ \cup {USER}], USER, w.groups)
             ELSE IF prt.userExists
             THEN Checked(upstreamError(409), authResponse, prt)
             ELSE loadWickedUser(createUserFromDefaultProfile(prt), USER,
                                 authResponse.defaultGroups)
        ELSE Checked(upstreamError(0), authResponse, prt)

\* mergeUserGroupScope(scope, groups) for a scope list: the group scopes
\* "wicked:<group>" are pushed onto the list
mergeUserGroupScope(scope, groups) ==
    scope \o [i \in 1..Len(groups) |-> <<"wicked:", groups[i]>>]

\* ------------------------------------------------------------------------
\* The token end point (generic-router.ts, utils-oauth2.ts)
\* ------------------------------------------------------------------------

validateTokenRequest(tr) ==
    IF tr.grant_type = Nil
    THEN failOAuth(400, "invalid_request", "grant_type is missing.")
    ELSE IF tr.grant_type \notin {"client_credentials", "authorization_code", "password", "refresh_token"}
    THEN failOAuth(400, "unsupported_grant_type", "not supported")
    ELSE IF tr.client_id = Nil
    THEN failOAuth(400, "invalid_client", "client_id is missing.")
    ELSE IF tr.grant_type = "client_credentials"
    THEN IF tr.client_secret = Nil
         THEN failOAuth(400, "invalid_client", "client_secret is missing.")
         ELSE NoError
    ELSE IF tr.grant_type = "authorization_code"
    THEN IF tr.code = NoKey
         THEN failOAuth(400, "invalid_request", "code is missing.")
         ELSE IF tr.client_secret = Nil
         THEN failOAuth(400, "invalid_client", "client_secret is missing.")
         ELSE NoError
    ELSE IF tr.grant_type = "password"
    THEN IF tr.username = Nil
         THEN failOAuth(400, "invalid_request", "username is missing.")
         ELSE NoError
    ELSE IF tr.refresh_token = NoKey
         THEN failOAuth(400, "invalid_request", "refresh_token is missing.")
         ELSE NoError

\* validateSubscription: the subscription of the client id, from the portal
validateSubscription(tr, env) ==
    IF env.portal # "ok" \/ tr.client_id # CID
    THEN failOAuth(400, "invalid_request", "could not validate client_id and API subscription")
    ELSE NoError

\* what getApiScopes reads from the portal in this request
FetchScopes(w, env) ==
    IF env.portal = "ok" THEN ApiFetch("ok", w.apiScopes) ELSE ApiFetch("err", <<>>)

\* a grant function's result with the profile store it leaves behind
WithStore(r, store) == [store |-> store] @@ r

tokenClientCredentials(w, gw, store, tr, env) ==
    LET fail(err) == WithStore(TokenResult(err, NoAccessToken, gw, {}, FALSE), store)
        scopeInfo == validateApiScopes(FetchScopes(w, env), tr.scope, w.trusted)
    IN  IF validateSubscription(tr, env) # NoError THEN fail(validateSubscription(tr, env))
        ELSE IF scopeInfo.err # NoError THEN fail(scopeInfo.err)
        ELSE WithStore(oauth2_token(w, gw, [tr EXCEPT !.scope = scopeInfo.validatedScopes], env),
                       store)

\* tokenAuthorizationCode without the deletion of the code's entry
tokenAuthorizationCodeKeepCode(w, gw, store, tr, env) ==
    LET r == oauth2_token(w, gw, tr, env)
        profile == retrieve(store, tr.code)
        accessToken == [r.accessToken EXCEPT !.session_data = profile]
    IN  IF r.err # NoError THEN WithStore(r, store)
        ELSE IF env.store = "err"
        THEN WithStore([r EXCEPT !.err = upstreamError(0)], store)
        ELSE WithStore([r EXCEPT !.accessToken = accessToken,
                                 !.calls = @ \cup {Call("store.register", tr.grant_type, <<>>, <<>>)}],
                       registerTokenOrCode(store, accessToken.access_token,
                                           accessToken.refresh_token, profile))

tokenAuthorizationCode(w, gw, store, tr, env) ==
    LET r == oauth2_token(w, gw, tr, env)
        profile == retrieve(store, tr.code)
        accessToken == [r.accessToken EXCEPT !.session_data = profile]
    IN  IF r.err # NoError THEN WithStore(r, store)
        ELSE IF env.store = "err"
        THEN \* retrieve came back with an error
             WithStore([r EXCEPT !.err = upstreamError(0)], store)
        ELSE WithStore([r EXCEPT !.accessToken = accessToken,
                                 !.calls = @ \cup {Call("store.register", tr.grant_type, <<>>, <<>>)}],
                       registerTokenOrCode(deleteTokenOrCode(store, tr.code),
                                           accessToken.access_token,
                                           accessToken.refresh_token, profile))

\* a password grant that takes any subscription for a trusted one
subscriptionIsTrustedAlways(w) ==
    TRUE

\* subsInfo.subscription.trusted of the password grant
subscriptionIsTrusted(w) ==
    w.trusted

\* a password grant that compares no secret
invalidClientSecretNever(w, tr) ==
    FALSE

\* the password grant's own comparison for a confidential application:
\* tokenRequest.client_secret !== subsInfo.subscription.clientSecret
invalidClientSecret(w, tr) ==
    w.confidential /\ tr.client_secret # SECRET

\* a grant function's result with the portal it leaves behind
WithPortal(r, prt) == [portal |-> prt] @@ r

\* tokenPasswordGrant (generic-router.ts)
tokenPasswordGrant(w, gw, prt, store, tr, env) ==
    LET fail(err, delayed) == WithStore(TokenResult(err, NoAccessToken, gw, {}, delayed), store)
        failAfter(err, cs) ==
            WithStore(TokenResult(err, NoAccessToken, gw, cs, TRUE), store)
        scopeInfo == validateApiScopes(FetchScopes(w, env), tr.scope, w.trusted)
        idpCall == Call("idp.userpass", tr.grant_type, <<>>, <<>>)
        checked == checkUserFromAuthResponse(w, prt, IdpAuthResponse(env))
        authResponse == checked.authResponse
        tokenRequest == [tr EXCEPT !.scope = mergeUserGroupScope(scopeInfo.validatedScopes,
                                                                 authResponse.groups),
                                   !.authenticated_userid = <<"sub=">> \o Interpolate(authResponse.userId),
                                   !.session_data = authResponse.profile]
        r == oauth2_token(w, gw, tokenRequest, env)
    IN  IF validateSubscription(tr, env) # NoError THEN fail(validateSubscription(tr, env), FALSE)
        ELSE IF w.confidential /\ tr.client_secret = Nil
        THEN fail(failOAuth(401, "invalid_request",
                            "A confidential application must also pass its client_secret"), FALSE)
        ELSE IF invalidClientSecret(w, tr)
        THEN fail(failOAuth(401, "invalid_request", "Invalid client secret"), FALSE)
        ELSE IF ~subscriptionIsTrusted(w)
        THEN fail(failOAuth(400, "invalid_request", "only trusted application subscriptions"), FALSE)
        ELSE IF scopeInfo.err # NoError
        THEN fail(failOAuth(500, "server_error", "could not validate requested token scope"), FALSE)
        ELSE IF idpRejectsUserPass(tr, env)
        THEN failAfter(failOAuth(env.reject, "invalid_request", "invalid username or password"),
                       {idpCall})
        ELSE IF checked.err # NoError
        THEN failAfter(failOAuth(checked.err.status, "invalid_request",
                                 "could not unify auth response"), {idpCall})
        ELSE IF w.registrationPool # Nil /\ ~checked.portal.registered
        THEN WithPortal(WithStore(TokenResult(failOAuth(403, "access_denied",
                                                        "requires an existing user registration"),
                                              NoAccessToken, gw, {idpCall}, FALSE), store),
                        checked.portal)
        ELSE WithPortal(WithStore([r EXCEPT !.calls = @ \cup {idpCall}], store),
                        checked.portal)

\* extractUserId(authUserId): what follows "sub=" up to the first ";"
extractUserId(authUserId) ==
    IF authUserId = <<>> \/ authUserId[1] # "sub=" THEN authUserId
    ELSE IF Len(authUserId) >= 2 THEN <<authUserId[2]>> ELSE <<>>

\* tokens.deleteTokens(accessToken): the gateway forgets the token, and so
\* does the profile store
deleteTokens(gw, store, old) ==
    [gateway |-> [gw EXCEPT !.tokens = @ \ {old}],
     store |-> deleteTokenOrCode(store, AccessKey(old.n))]

\* an API descriptor read as if neither passthrough setting were set
passthroughModeIgnored(w) ==
    "normal"

\* the branch tokenRefreshToken takes on apiInfo.passthroughUsers and
\* apiInfo.passthroughScopeUrl
passthroughMode(w) ==
    IF w.passthroughUsers /\ ~w.passthroughScopeUrl THEN "users only"
    ELSE IF ~w.passthroughUsers /\ w.passthroughScopeUrl THEN "scope only"
    ELSE IF ~w.passthroughUsers THEN "normal"
    ELSE "passthrough"

\* a user lookup that always finds the user
getUserFailsNever(prt, userId) ==
    FALSE

\* wicked.getUser(userId) answers an error: the portal has one user
getUserFails(prt, userId) ==
    ~prt.userExists \/ userId # <<USER>>

\* a passthrough refresh that sends the refresh_token grant on as it came
rewriteToPasswordGrantNot(tr, profile, scopeResponse) ==
    [tr EXCEPT !.session_data = profile]

\* the passthrough refresh rewrites the token request to a password grant
\* with what the scope service answered
rewriteToPasswordGrant(tr, profile, scopeResponse) ==
    [tr EXCEPT !.session_data = profile,
               !.grant_type = "password",
               !.authenticated_userid = scopeResponse.authenticated_userid,
               !.scope = scopeResponse.authenticated_scope]

\* what idp.checkRefreshToken calls back with besides the error: the
\* CheckRefreshDecision's allowRefresh as JSON text (env.idp "deny": false,
\* "nodecision": no decision at all)
checkRefreshToken(env) ==
    [kind |-> IF env.idp = "err" THEN "err" ELSE "ok",
     allow |-> CASE env.idp = "deny" -> "false"
                 [] env.idp \in {"nodecision", "err"} -> "undefined"
                 [] OTHER -> "true",
     authenticated_userid |-> <<>>, authenticated_scope |-> <<>>]

\* tokenRefreshToken (generic-router.ts)
tokenRefreshToken(w, gw, prt, store, tr, env) ==
    LET fail(err) == WithStore(TokenResult(err, NoAccessToken, gw, {}, FALSE), store)
        found == GwTokenOfRefresh(gw, tr.refresh_token)
        tokenInfo == CHOOSE t \in found : TRUE
        userId == extractUserId(tokenInfo.userid)
        idpCall == [Call("idp.refresh", tr.grant_type, tokenInfo.userid, tokenInfo.scope)
                       EXCEPT !.answered = checkRefreshToken(env)]
        normal == oauth2_token(w, gw, [tr EXCEPT !.session_data = WickedProfile], env)
        extCall == [Call("ext.scope", tr.grant_type, tokenInfo.userid, tokenInfo.scope)
                       EXCEPT !.answered = env.ext]
        tempProfile == Profile(tokenInfo.userid, Nil, Nil)
        rewritten == rewriteToPasswordGrant(tr, tempProfile, env.ext)
        pass == oauth2_token(w, gw, rewritten, env)
        cleaned == deleteTokens(pass.gateway, store, tokenInfo)
    IN  IF env.gw = "down" \/ found = {}
        THEN fail(failOAuth(400, "invalid_request",
                            "could not retrieve information on the given refresh token."))
        ELSE IF passthroughMode(w) = "users only"
        THEN fail(failOAuth(500, "server_error", "refresh tokens cannot be used"))
        ELSE IF passthroughMode(w) = "scope only"
        THEN fail(failOAuth(500, "server_error", "not yet implemented"))
        ELSE IF passthroughMode(w) = "normal"
        THEN IF userId = <<>>
             THEN fail(failOAuth(500, "server_error", "could not retrieve authenticated user id"))
             ELSE IF env.idp = "err"
             THEN WithStore(TokenResult(failOAuth(500, "server_error", "checking the refresh token"),
                                        NoAccessToken, gw, {idpCall}, FALSE), store)
             ELSE IF getUserFails(prt, userId)
             THEN WithStore(TokenResult(failOAuth(400, "invalid_request",
                                                  "user is not a valid user (anymore)"),
                                        NoAccessToken, gw, {idpCall}, FALSE), store)
             ELSE WithStore([normal EXCEPT !.calls = @ \cup {idpCall}], store)
        ELSE IF env.ext.kind # "ok"
        THEN WithStore(TokenResult(failError(500, scopeServiceError(env.ext)), NoAccessToken, gw,
                                   {extCall}, FALSE), store)
        ELSE IF pass.err # NoError
        THEN WithStore([pass EXCEPT !.calls = @ \cup {extCall}], store)
        ELSE WithStore([pass EXCEPT !.calls = @ \cup {extCall},
                                    !.gateway = cleaned.gateway,
                                    !.revoked = {AccessKey(tokenInfo.n)}],
                       cleaned.store)

\* ------------------------------------------------------------------------
\* Error handling: the router's error handler, then the application's
\* ------------------------------------------------------------------------

\* an error handler that redirects whenever the session's AuthRequest has a
\* redirect_uri, logged in or not
ErrorResponseWithoutLogin(err, level, sess, delayed) ==
    LET status == IF err.status # 0 THEN err.status ELSE 500
        answer(kind, st) ==
            [Response(kind, st, err.oauthError, delayed, "error", NoKey)
                EXCEPT !.description = err.message]
    IN  IF err.oauthError # Nil /\ level = "token"
        THEN answer("json", status)
        ELSE IF /\ err.oauthError # Nil /\ level = "router"
                /\ sess.authRequest.defined /\ sess.authRequest.redirect_uri # Nil
        THEN [answer("redirect", 302) EXCEPT !.location = sess.authRequest.redirect_uri]
        ELSE IF err.oauthError # Nil
        THEN answer("json", status)
        ELSE answer("render", status)

\* level "token": a request of the token end point (req.isTokenFlow);
\* "router": any other request of the auth method's router; "app": a route of
\* the application itself (/profile)
ErrorResponse(err, level, sess, delayed) ==
    LET status == IF err.status # 0 THEN err.status ELSE 500
        answer(kind, st) ==
            [Response(kind, st, err.oauthError, delayed, "error", NoKey)
                EXCEPT !.description = err.message]
    IN  IF err.oauthError # Nil /\ level = "token"
        THEN answer("json", status)
        ELSE IF /\ err.oauthError # Nil /\ level = "router"
                /\ sess.authResponse.defined
                /\ sess.authRequest.defined /\ sess.authRequest.redirect_uri # Nil
        THEN [answer("redirect", 302) EXCEPT !.location = sess.authRequest.redirect_uri]
        ELSE IF err.oauthError # Nil
        THEN answer("json", status)
        ELSE answer("render", status)

\* the history once response r is written
Written(h, r) ==
    IF r.kind = "json" /\ r.status = 200 /\ r.body = "token"
    THEN [h EXCEPT !.handed = @ \cup ({r.key, r.refresh} \ {NoKey}),
                   !.exchanged = IF r.code # NoKey
                                 THEN @ \cup {[code |-> r.code, token |-> r.key]} ELSE @]
    ELSE IF r.kind = "redirect" /\ r.key # NoKey
    THEN [h EXCEPT !.handed = @ \cup {r.key},
                   !.issued = @ \cup {[key |-> r.key, profile |-> r.profile]}]
    ELSE h

\* the 200 answer of the token end point
TokenResponse(tr, accessToken) ==
    [Response("json", 200, Nil, FALSE, "token", accessToken.access_token)
        EXCEPT !.refresh = accessToken.refresh_token,
               !.grant = tr.grant_type,
               !.code = IF tr.grant_type = "authorization_code" THEN tr.code ELSE NoKey]

\* the grant function POST /token switches to
GrantResult(w, gw, prt, store, tr, env) ==
    CASE tr.grant_type = "client_credentials" -> tokenClientCredentials(w, gw, store, tr, env)
      [] tr.grant_type = "authorization_code" -> tokenAuthorizationCode(w, gw, store, tr, env)
      [] tr.grant_type = "password" -> tokenPasswordGrant(w, gw, prt, store, tr, env)
      [] OTHER -> tokenRefreshToken(w, gw, prt, store, tr, env)

\* handleTokenResult answering at once, whatever session_data says
handleTokenResultUnregistered(tr, r) ==
    IF r.err # NoError
    THEN [pending |-> NoPending,
          resp |-> ErrorResponse(failError(400, r.err), "token", NewSession, r.delayed)]
    ELSE [pending |-> NoPending, resp |-> TokenResponse(tr, r.accessToken)]

\* handleTokenResult: the response, or the registration to wait for first
handleTokenResult(tr, r) ==
    IF r.err # NoError
    THEN [pending |-> NoPending,
          resp |-> ErrorResponse(failError(400, r.err), "token", NewSession, r.delayed)]
    ELSE IF r.accessToken.session_data.defined
    THEN [pending |-> [kind |-> "token", key |-> r.accessToken.access_token,
                       refresh |-> r.accessToken.refresh_token,
                       profile |-> r.accessToken.session_data,
                       then |-> TokenResponse(tr, r.accessToken)],
          resp |-> NoResponse]
    ELSE [pending |-> NoPending, resp |-> TokenResponse(tr, r.accessToken)]

\* ------------------------------------------------------------------------
\* Requests and the environment's answers
\* ------------------------------------------------------------------------

\* what resolvePassthroughScope calls back with: kind "ok" is the body of a
\* 2xx answer, "err" the error of a request that got no answer, "503" an
\* answer with that status; allow is the JSON text of the body's allow
\* property ("undefined" when the body has none)
ExtAnswer(kind, allow, userid, scope) ==
    [kind |-> kind, allow |-> allow, authenticated_userid |-> userid,
     authenticated_scope |-> scope]

\* one request's environment: every collaborator answers, or one of them
\* fails or refuses
AllUp == Env("up", 400, "ok", "ok", "ok", ExtAnswer("ok", "true", <<"ext:42">>, << <<"s1">> >>))

ScopeParams == {Undefined, <<"r">>, <<"d">>}

KeysOf(h, kind) == {k \in h.handed : k[1] = kind}

Secrets == {SECRET, "bad", Nil}

\* the bodies a client posts to the token end point: only codes and tokens
\* it was given, or ones it made up; every combination of secret, username
\* and password
TokenRequests(h) ==
    {TokenRequest(g, CID, Nil, NoKey, Undefined, Nil, Nil, NoKey) : g \in {Nil, "implicit"}}
    \cup {TokenRequest(g, Nil, SECRET, CodeKey(0), Undefined, USER, PASSWORD, RefreshKey(0)) :
             g \in {"client_credentials", "authorization_code", "password", "refresh_token"}}
    \cup {TokenRequest("client_credentials", CID, s, NoKey, sc, Nil, Nil, NoKey) :
             s \in Secrets, sc \in ScopeParams}
    \cup {TokenRequest("authorization_code", CID, s, k, Undefined, Nil, Nil, NoKey) :
             s \in Secrets, k \in KeysOf(h, "code") \cup {CodeKey(0), NoKey}}
    \cup {TokenRequest("password", CID, s, NoKey, Undefined, u, pw, NoKey) :
             s \in Secrets, u \in {USER, "nobody", Nil}, pw \in {PASSWORD, "bad", Nil}}
    \cup {TokenRequest("password", CID, s, NoKey, sc, USER, PASSWORD, NoKey) :
             s \in {SECRET, Nil}, sc \in ScopeParams \ {Undefined}}
    \cup {TokenRequest("refresh_token", CID, s, NoKey, Undefined, Nil, Nil, k) :
             s \in Secrets, k \in KeysOf(h, "rt") \cup {RefreshKey(0), NoKey}}

\* ------------------------------------------------------------------------
\* Actions of the token end point and of /profile
\* ------------------------------------------------------------------------

\* POST /api/:apiId/token with body tr
PostTokenWith(tr, env) ==
    /\ pending.kind = "none"
    /\ gateway.next <= MaxMint
    /\ LET v == validateTokenRequest(tr)
           r == GrantResult(world, gateway, portal, profileStore, tr, env)
           h == handleTokenResult(tr, r)
       IN  IF v # NoError
           THEN /\ resp' = ErrorResponse(v, "token", NewSession, FALSE)
                /\ calls' = {}
                /\ hist' = [hist EXCEPT !.last = [route |-> "token", matched |-> FALSE, request |-> tr,
                                          posted |-> Nil]]
                /\ UNCHANGED <<gateway, profileStore, pending, portal>>
           ELSE /\ resp' = h.resp
                /\ pending' = h.pending
                /\ gateway' = r.gateway
                /\ profileStore' = r.store
                /\ calls' = r.calls
                /\ hist' = [Written(hist, h.resp) EXCEPT
                                !.revoked = @ \cup r.revoked,
                                !.last = [route |-> "token", matched |-> FALSE, request |-> tr,
                                          posted |-> Nil]]
                /\ portal' = (r @@ [portal |-> portal]).portal
    /\ UNCHANGED <<sv, cache, world, session>>

\* the clients post one of requests, the collaborators answer as one of envs
PostToken(requests, envs) == \E tr \in requests, env \in envs : PostTokenWith(tr, env)

\* the profile store answers the registration a request waits for: the
\* response held back is written, or the error
RegisterTokenOrCodeDone ==
    /\ pending.kind \in {"redirect", "token"}
    /\ \E ok \in BOOLEAN :
          IF ok
          THEN /\ profileStore' = registerTokenOrCode(profileStore, pending.key,
                                                      pending.refresh, pending.profile)
               /\ resp' = pending.then
               /\ hist' = Written(hist, pending.then)
               /\ calls' = calls \cup {Call("store.register", pending.kind, <<>>, <<>>)}
          ELSE /\ resp' = ErrorResponse(failError(500, upstreamError(0)),
                                        IF pending.kind = "token" THEN "token" ELSE "router",
                                        session, FALSE)
               /\ UNCHANGED <<profileStore, hist, calls>>
    /\ pending' = NoPending
    /\ UNCHANGED <<sv, cache, world, session, portal, gateway>>

\* getProfile: GET /profile with the Authorization header bearer
GetProfileWith(bearer, storeAnswer) ==
    /\ pending.kind = "none"
    /\ LET profile == retrieve(profileStore, bearer)
       IN  resp' = IF bearer = NoKey
                   THEN ErrorResponse(failMessage(403, "Unauthorized"), "app", session, FALSE)
                   ELSE IF storeAnswer = "err" \/ ~profile.defined
                   THEN [ErrorResponse(failOAuth(404, "invalid_request", "Not found"),
                                       "app", session, FALSE) EXCEPT !.body = "profile", !.key = bearer]
                   ELSE [Response("json", 200, Nil, FALSE, "profile", bearer)
                            EXCEPT !.profile = profile]
    /\ calls' = {}
    /\ hist' = [hist EXCEPT !.last = [route |-> "/profile", matched |-> FALSE,
                                 request |-> NoTokenRequest, posted |-> Nil]]
    /\ UNCHANGED <<sv, cache, world, session, portal, gateway, profileStore, pending>>

GetProfile ==
    \E bearer \in KeysOf(hist, "at") \cup KeysOf(hist, "rt") \cup {AccessKey(0), NoKey},
       storeAnswer \in {"ok", "err"} : GetProfileWith(bearer, storeAnswer)

\* ------------------------------------------------------------------------
\* The authorize flow (generic-router.ts).  The functions below take the
\* bundle b of what one request may change (session, portal, gateway,
\* pending, resp, calls, rendered) and give the bundle the request leaves.
\* ------------------------------------------------------------------------

Bundle(sess, prt, gw, rendered) ==
    [session |-> sess, portal |-> prt, gateway |-> gw, pending |-> NoPending,
     resp |-> NoResponse, calls |-> {}, rendered |-> rendered]

\* next(err) from a handler of the router
Fail(b, err, delayed) ==
    [b EXCEPT !.resp = ErrorResponse(err, "router", b.session, delayed)]

\* utils.createViewModel and utils.render: the page carries a fresh CSRF
\* token, which the session keeps
Render(b, view) ==
    [b EXCEPT !.rendered = @ + 1,
              !.session.csrfToken = b.rendered + 1,
              !.resp = [Response("render", 200, Nil, FALSE, view, NoKey)
                           EXCEPT !.token = b.rendered + 1]]

makeAuthenticatedUserId(authRequest, authResponse) ==
    <<"sub=">> \o (IF authResponse.profile.defined THEN authResponse.profile.sub ELSE <<"null">>)
        \o (IF authRequest.namespace # Nil THEN <<";namespace=", authRequest.namespace>> ELSE <<>>)

\* the messages of the errors made after the gateway was called
GatewayMessages == {"gateway", "calling kong authorize returned an error"}

\* oauth2.authorize: the error it calls back with, NoError when the gateway
\* made the redirect URI
oauth2_authorize(w, gw, body, env) ==
    IF body.response_type \notin {"token", "code"}
    THEN failOAuth(400, "unsupported_response_type", "invalid response_type")
    ELSE IF body.client_id = Nil
    THEN failOAuth(400, "invalid_request", "client_id is missing")
    ELSE IF body.authenticated_userid = <<>>
    THEN failOAuth(400, "invalid_request", "authenticated_userid is missing")
    ELSE IF env.portal # "ok" \/ body.client_id # CID
    THEN failOAuth(403, "unauthorized_client", "invalid client_id")
    ELSE IF lookupApi(w) # NoError THEN lookupApi(w)
    ELSE IF ~grantEnabled(w.oauth2Config, body.response_type)
    THEN failOAuth(403, "unauthorized_client", "The API is not configured for the grant")
    ELSE IF env.gw = "down"
    THEN failOAuth(500, "server_error", "calling kong authorize returned an error")
    ELSE IF env.gw = "reject" \/ ~KongAuthorizeAccepts(w, gw, body)
    THEN failOAuth(env.reject, "invalid_request", "gateway")
    ELSE NoError

\* authorizeFlow_Step2 that registers the identity provider's default
\* profile instead of the profile of the AuthResponse
authorizeFlow_Step2DefaultProfile(b, w, env) ==
    LET authRequest == b.session.authRequest
        authResponse == b.session.authResponse
        scope == mergeUserGroupScope(authRequest.scope, authResponse.groups)
        body == [response_type |-> authRequest.response_type,
                 authenticated_userid |-> makeAuthenticatedUserId(authRequest, authResponse),
                 client_id |-> authRequest.client_id, scope |-> scope]
        err == oauth2_authorize(w, b.gateway, body, env)
        call == [Call("gw.authorize", authRequest.response_type, body.authenticated_userid, scope)
                    EXCEPT !.asked = authRequest.scope]
        key == IF authRequest.response_type = "code"
               THEN CodeKey(b.gateway.next) ELSE AccessKey(b.gateway.next)
        merged == IF authRequest.scopeKind = "list"
                  THEN [b EXCEPT !.session.authRequest.scope = scope] ELSE b
    IN  IF err # NoError
        THEN [Fail(merged, failError(400, err), FALSE)
                 EXCEPT !.calls = IF err.message \in GatewayMessages THEN {call} ELSE {}]
        ELSE [merged EXCEPT
                 !.gateway = KongAuthorizeMint(b.gateway, body),
                 !.calls = {call},
                 !.pending = [kind |-> "redirect", key |-> key, refresh |-> NoKey,
                              profile |-> authResponse.defaultProfile,
                              then |-> [Response("redirect", 302, Nil, FALSE, "code", key)
                                           EXCEPT !.profile = authResponse.profile,
                                                  !.grant = authRequest.response_type,
                                                  !.location = REDIRECT]]]

authorizeFlow_Step2(b, w, env) ==
    LET authRequest == b.session.authRequest
        authResponse == b.session.authResponse
        userProfile == authResponse.profile
        scope == mergeUserGroupScope(authRequest.scope, authResponse.groups)
        body == [response_type |-> authRequest.response_type,
                 authenticated_userid |-> makeAuthenticatedUserId(authRequest, authResponse),
                 client_id |-> authRequest.client_id, scope |-> scope]
        err == oauth2_authorize(w, b.gateway, body, env)
        call == [Call("gw.authorize", authRequest.response_type, body.authenticated_userid, scope)
                    EXCEPT !.asked = authRequest.scope]
        key == IF authRequest.response_type = "code"
               THEN CodeKey(b.gateway.next) ELSE AccessKey(b.gateway.next)
        \* mergeUserGroupScope pushes onto the array of the AuthRequest itself
        merged == IF authRequest.scopeKind = "list"
                  THEN [b EXCEPT !.session.authRequest.scope = scope] ELSE b
    IN  IF err # NoError
        THEN [Fail(merged, failError(400, err), FALSE)
                 EXCEPT !.calls = IF err.message \in GatewayMessages THEN {call} ELSE {}]
        ELSE [merged EXCEPT
                 !.gateway = KongAuthorizeMint(b.gateway, body),
                 !.calls = {call},
                 !.pending = [kind |-> "redirect", key |-> key, refresh |-> NoKey,
                              profile |-> userProfile,
                              then |-> [Response("redirect", 302, Nil, FALSE, "code", key)
                                           EXCEPT !.profile = userProfile,
                                                  !.grant = authRequest.response_type,
                                                  !.location = REDIRECT]]]

\* a comparison of grants that finds nothing missing
diffGrantsNothingMissing(storedGrants, desiredScopesList) ==
    <<>>

\* diffGrants(storedGrants, desiredScopesList): the desired scopes that are
\* not among the stored grants, in order
RECURSIVE diffGrants(_, _)
diffGrants(storedGrants, desiredScopesList) ==
    IF desiredScopesList = <<>> THEN <<>>
    ELSE (IF Head(desiredScopesList) \in Range(storedGrants)
          THEN <<>> ELSE <<Head(desiredScopesList)>>)
         \o diffGrants(storedGrants, Tail(desiredScopesList))

\* the grants the portal holds for (userId, application, API); none for a
\* user it does not know (404)
getUserGrant(prt, userId) == IF userId = USER THEN prt.grants ELSE <<>>

\* a TypeError thrown in a callback: no response is written
Thrown(b) == [b EXCEPT !.resp = Response("none", 0, Nil, FALSE, "thrown", NoKey)]

\* scopeFlow
scopeFlow(b, w, env) ==
    LET authRequest == b.session.authRequest
        authResponse == b.session.authResponse
        grantsList == getUserGrant(b.portal, authResponse.userId)
        missingGrants == diffGrants(grantsList, authRequest.scope)
    IN  IF env.portal # "ok" \/ authRequest.client_id # CID
        THEN \* wicked.getSubscriptionByClientId or wicked.getUserGrant fails
             Fail(b, failError(500, upstreamError(0)), FALSE)
        ELSE IF missingGrants = <<>>
        THEN authorizeFlow_Step2(b, w, env)
        ELSE IF \E i \in 1..Len(missingGrants) :
                    ~HasScope(w.apiScopes, missingGrants[i])
        THEN \* makeScopeList reads .description of undefined
             Thrown(b)
        ELSE Render([b EXCEPT !.session.grantData =
                                 [defined |-> TRUE, missingGrants |-> missingGrants,
                                  existingGrants |-> grantsList]],
                    "grant_scopes")

\* what `!value` takes for true, by the JSON text of the value
truthy(json) == json \notin {"undefined", "null", "false", "0", "''"}

\* authorizeFlow
authorizeFlow(b, w, env) ==
    LET authRequest == b.session.authRequest
        authResponse == b.session.authResponse
        extCall == [Call("ext.scope", authRequest.response_type, authResponse.profile.sub,
                         authRequest.scope) EXCEPT !.answered = env.ext]
        resolved ==
            [b EXCEPT !.session.authRequest.scope = env.ext.authenticated_scope,
                      !.session.authRequest.scopeKind = "list",
                      !.session.authResponse.profile.sub =
                          IF env.ext.authenticated_userid # <<>>
                          THEN env.ext.authenticated_userid ELSE @]
        step2 == authorizeFlow_Step2(resolved, w, env)
    IN  IF env.portal # "ok"
        THEN Fail(b, failError(500, upstreamError(0)), FALSE)
        ELSE IF authRequest.trusted
        THEN authorizeFlow_Step2(b, w, env)
        ELSE IF authRequest.scopeKind = "undefined"
        THEN \* authRequest.scope.length of undefined
             Thrown(b)
        ELSE IF authRequest.scope = <<>> /\ ~w.passthroughScopeUrl
        THEN authorizeFlow_Step2(b, w, env)
        ELSE IF ~w.passthroughScopeUrl
        THEN scopeFlow(b, w, env)
        ELSE IF env.ext.kind # "ok"
        THEN [Fail(b, failError(500, scopeServiceError(env.ext)), FALSE)
                 EXCEPT !.calls = {extCall}]
        ELSE IF ~truthy(env.ext.allow)
        THEN [Fail(b, failMessage(403, "Scope validation with external system disallowed login"),
                   FALSE) EXCEPT !.calls = {extCall}]
        ELSE [step2 EXCEPT !.calls = @ \cup {extCall}]

\* renderRegister: the page carries a fresh nonce, which the session keeps
renderRegister(b, w, env) ==
    LET page == Render(b, "register")
    IN  [page EXCEPT !.session.registrationNonce = page.resp.token]

\* renderSelectNamespace: the page lists the namespaces of the user's
\* registrations that the pool knows, and the AuthRequest notes them down
renderSelectNamespace(b, w, env, items) ==
    LET namespaceList == SelectSeq(items, LAMBDA ns : ns \in b.portal.poolNamespaces)
    IN  Render([b EXCEPT !.session.authRequest.validNamespaces =
                             [defined |-> TRUE, list |-> namespaceList]],
               "select_namespace")

\* registrationFlow: the registration of the AuthRequest's namespace, the
\* only registration, or the page to select a namespace from; a pool that
\* takes no namespaces has at most the one registration
registrationFlow(b, w, env) ==
    LET authResponse == b.session.authResponse
        authRequest == b.session.authRequest
        registered == authResponse.userId = USER /\ b.portal.registered
        items == IF authResponse.userId = USER THEN b.portal.namespaces ELSE <<>>
        \* getUserRegistrations answered 404: regInfos is undefined
        notFound == items = <<>> /\ b.portal.lookup404
        withProfile(bb) ==
            authorizeFlow([bb EXCEPT !.session.authResponse.profile = RegisteredProfile], w, env)
    IN  IF env.portal # "ok"
        THEN Fail(b, failError(500, upstreamError(0)), FALSE)
        ELSE IF authRequest.namespace # Nil
        THEN IF authRequest.namespace \in Range(items)
             THEN withProfile(b) ELSE renderRegister(b, w, env)
        ELSE IF w.requiresNamespace /\ ~notFound
        THEN IF Len(items) = 0
             THEN Fail(b, failMessage(400, "Invalid request. For registering, a namespace must be given"),
                       FALSE)
             ELSE IF Len(items) = 1
             THEN withProfile([b EXCEPT !.session.authRequest.namespace = items[1]])
             ELSE renderSelectNamespace(b, w, env, items)
        ELSE IF notFound \/ ~registered
        THEN renderRegister(b, w, env)
        ELSE withProfile(b)

\* continueAuthorizeFlow(req, res, next, authResponse)
continueAuthorizeFlow(b, w, env, authResponseIn) ==
    LET checked == checkUserFromAuthResponse(w, b.portal, authResponseIn)
        authResponse == checked.authResponse
        authRequest == b.session.authRequest
        loggedIn == [b EXCEPT !.session.authResponse = authResponse,
                              !.portal = checked.portal]
        defaultProfile ==
            IF authResponse.userId # Nil /\ authResponse.defaultProfile.defined
            THEN [authResponse.defaultProfile EXCEPT !.sub = <<authResponse.userId>>]
            ELSE authResponse.defaultProfile
    IN  IF env.portal # "ok" \/ checked.err # NoError
        THEN Fail(b, failError(500, IF checked.err # NoError THEN checked.err
                                    ELSE upstreamError(0)), FALSE)
        ELSE IF ~authRequest.defined
        THEN Fail(b, failMessage(500, "Invalid state: authRequest is missing."), FALSE)
        ELSE IF authRequest.plain
        THEN IF authRequest.redirect_uri = Nil
             THEN Fail(b, failMessage(500, "Invalid state: authRequest.redirect_uri is missing."),
                       FALSE)
             ELSE [loggedIn EXCEPT !.resp = [Response("redirect", 302, Nil, FALSE, "plain", NoKey)
                                                EXCEPT !.location = authRequest.redirect_uri]]
        ELSE IF authRequest.api_id = Nil
        THEN Fail(b, failMessage(500, "Invalid state: API in authorization request is missing."),
                  FALSE)
        ELSE IF w.registrationPool = Nil
        THEN authorizeFlow([loggedIn EXCEPT !.session.authResponse.registrationPool = Nil,
                                            !.session.authResponse.profile = defaultProfile],
                           w, env)
        ELSE registrationFlow([loggedIn EXCEPT !.session.authResponse.registrationPool =
                                                   w.registrationPool], w, env)

\* ------------------------------------------------------------------------
\* Actions of the browser's session
\* ------------------------------------------------------------------------

\* most pages with a CSRF token a request may still render
CanRender == hist.rendered < MaxRender

\* what a POST carried as its CSRF token or nonce: matched says whether it
\* equalled the session's, accepted whether the handler let the request
\* through on it
Form(kind, value, matched, accepted) ==
    [kind |-> kind, value |-> value, matched |-> matched, accepted |-> accepted,
     posted |-> Nil]
NoForm == Form(Nil, 0, FALSE, FALSE)

\* the form, posting what besides its token
Posting(form, what) == [form EXCEPT !.posted = what]

\* the request to route ran to the end and left bundle b; pages and
\* submitted are the pages the browser holds now and the one it posted
LeaveTracked(b, route, form, pages, submitted) ==
    /\ session' = b.session
    /\ portal' = b.portal
    /\ gateway' = b.gateway
    /\ pending' = b.pending
    /\ resp' = b.resp
    /\ calls' = b.calls
    /\ hist' = [Written(hist, b.resp) EXCEPT
                   !.rendered = b.rendered,
                   !.pages = pages,
                   !.submitted = submitted,
                   !.last = [route |-> route, matched |-> form.matched,
                             request |-> NoTokenRequest, posted |-> form.posted],
                   !.accepted = IF form.accepted /\ b.resp.status # 500
                                THEN @ \cup {<<form.kind, form.value>>} ELSE @,
                   !.reused = IF /\ form.accepted /\ b.resp.status # 500
                                 /\ <<form.kind, form.value>> \in hist.accepted
                              THEN @ \cup {form.kind} ELSE @]
    /\ UNCHANGED <<sv, cache, world, profileStore>>

Leave(b, route, form) == LeaveTracked(b, route, form, hist.pages, hist.submitted)

Start == Bundle(session, portal, gateway, hist.rendered)

\* the query of GET /api/:apiId/authorize
Query(client, responseType, redirect, scope, prompt) ==
    [client_id |-> client, response_type |-> responseType, redirect_uri |-> redirect,
     scope |-> scope, prompt |-> prompt, namespace |-> Nil]

\* the query of a request that has none
NoQuery == Query(Nil, Nil, Nil, Undefined, Nil)

\* that query with &namespace=...
WithNamespace(q, namespace) == [q EXCEPT !.namespace = namespace]

AuthorizeScopes == ScopeParams \cup {<<"r", SP, "w">>}

\* utils.stripTrailingSlash, on the URIs of the model
stripTrailingSlash(uri) == IF uri = REDIRECT_SLASH THEN REDIRECT ELSE uri

validateAuthorizeRequest(authRequest, env) ==
    IF authRequest.response_type \notin {"token", "code"}
    THEN failMessage(400, "Invalid response_type")
    ELSE IF authRequest.client_id = Nil
    THEN failMessage(400, "Invalid or empty client_id.")
    ELSE IF authRequest.redirect_uri = Nil
    THEN failMessage(400, "Invalid or empty redirect_uri")
    ELSE IF validateSubscription(authRequest, env) # NoError
    THEN validateSubscription(authRequest, env)
    ELSE IF stripTrailingSlash(authRequest.redirect_uri) # stripTrailingSlash(REDIRECT)
    THEN failOAuth(400, "invalid_request", "The provided redirect_uri does not match")
    ELSE NoError

\* idp.authorizeWithUi: the identity provider shows its login page
authorizeWithUi(b) ==
    [b EXCEPT !.resp = Response("render", 200, Nil, FALSE, "login", NoKey),
              !.calls = {Call("idp.ui", Nil, <<>>, <<>>)}]

\* GET /api/:apiId/authorize
AuthorizeWith(q, env) ==
    LET init == [NoAuthRequest EXCEPT !.defined = TRUE, !.api_id = "api",
                                      !.client_id = q.client_id,
                                      !.response_type = q.response_type,
                                      !.redirect_uri = q.redirect_uri,
                                      !.scope = IF q.scope = Undefined THEN <<>>
                                                ELSE Chars(q.scope),
                                      !.scopeKind = IF q.scope = Undefined THEN "undefined"
                                                    ELSE "string",
                                      !.prompt = q.prompt,
                                      !.namespace = q.namespace]
        b0 == [Start EXCEPT !.session.authRequest = init]
        v == validateAuthorizeRequest(init, env)
        scopeInfo == validateApiScopes(FetchScopes(world, env), q.scope, world.trusted)
        b1 == [b0 EXCEPT !.session.authRequest.app_id = "app",
                         !.session.authRequest.trusted = world.trusted]
        b2 == [b1 EXCEPT !.session.authRequest.scope = scopeInfo.validatedScopes,
                         !.session.authRequest.scopeKind = "list",
                         !.session.authRequest.scopesDiffer = scopeInfo.scopesDiffer]
        isLoggedIn == session.authResponse.defined
        \* validateSubscription has set app_id when the redirect_uri is compared
        b0v == IF v.oauthError # Nil /\ validateSubscription(init, env) = NoError
               THEN [b0 EXCEPT !.session.authRequest.app_id = "app"] ELSE b0
    IN  IF v # NoError THEN Fail(b0v, v, FALSE)
        ELSE IF scopeInfo.err # NoError THEN Fail(b1, scopeInfo.err, FALSE)
        ELSE IF q.response_type = "token" /\ q.prompt = "none"
        THEN IF ~isLoggedIn
             THEN Fail(b2, failOAuth(401, "login_required", "user must be logged in"), FALSE)
             ELSE authorizeFlow(b2, world, env)
        ELSE IF q.response_type = "token" /\ q.prompt = "login"
        THEN authorizeWithUi([b2 EXCEPT !.session.authResponse = NoAuthResponse])
        ELSE IF isLoggedIn
        THEN continueAuthorizeFlow(b2, world, env, session.authResponse)
        ELSE authorizeWithUi(b2)

Authorize(queries, envs) ==
    /\ pending.kind = "none"
    /\ gateway.next <= MaxMint
    /\ CanRender
    /\ \E q \in queries, env \in envs : Leave(AuthorizeWith(q, env), "authorize", NoForm)

\* the identity provider checked the user's credentials and hands the user
\* over to continueAuthorizeFlow
LoginWith(env) ==
    IF env.idp = "err"
    THEN [Start EXCEPT !.resp = Response("render", 401, Nil, FALSE, "login", NoKey)]
    ELSE continueAuthorizeFlow(Start, world, env, IdpAuthResponse(env))

Login(envs) ==
    /\ pending.kind = "none"
    /\ gateway.next <= MaxMint
    /\ CanRender
    /\ session.authRequest.defined
    /\ \E env \in envs : Leave(LoginWith(env), "login", NoForm)

\* GET /login?redirect_uri=...: the plain login, without an API
PlainLoginWith(redirectUri, env) ==
    LET authRequest == [NoAuthRequest EXCEPT !.defined = TRUE, !.plain = TRUE,
                                             !.redirect_uri = redirectUri]
    IN  IF redirectUri = Nil
        THEN Fail(Start, failMessage(400, "Missing redirect_uri query parameter."), FALSE)
        ELSE IF session.authResponse.defined
        THEN [Start EXCEPT !.resp = [Response("redirect", 302, Nil, FALSE, "plain", NoKey)
                                        EXCEPT !.location = redirectUri]]
        ELSE authorizeWithUi([Start EXCEPT !.session.authRequest = authRequest])

PlainLogin(redirectUris, envs) ==
    /\ pending.kind = "none"
    /\ \E redirectUri \in redirectUris, env \in envs :
           Leave(PlainLoginWith(redirectUri, env), "/login", NoForm)

\* the values a form posts as its CSRF token or nonce: none (0), or any of
\* the values pages carried so far or will carry
FormTokens == 0..MaxRender

\* utils.getAndDeleteCsrfToken: the session's token is gone after the call
getAndDeleteCsrfToken(b) == [b EXCEPT !.session.csrfToken = 0]

\* !csrfToken || expectedCsrfToken !== csrfToken
CsrfFails(expected, csrf) == csrf = 0 \/ expected # csrf

\* a rejection that is not held back
CsrfRejectedAtOnce(b) ==
    Fail(b, failMessage(403, "CSRF validation failed."), FALSE)

\* setTimeout(failMessage, ERROR_TIMEOUT, 403, 'CSRF validation failed.', next)
CsrfRejected(b) == Fail(b, failMessage(403, "CSRF validation failed."), TRUE)

PortalWrite(what) == Call("portal.write", what, <<>>, <<>>)

\* wicked.apiPut(`/grants/${userId}/applications/${app_id}/apis/${api_id}`)
GrantWrite(authRequest) ==
    [PortalWrite("grants") EXCEPT !.target = <<authRequest.app_id, authRequest.api_id>>]

\* the portal after the PUT: the model keeps the grants of the one
\* application and API the world has
putGrants(b, authRequest, grantList) ==
    IF authRequest.app_id = "app" /\ authRequest.api_id = "api"
    THEN [b EXCEPT !.portal.grants = grantList]
    ELSE b

\* a handler of POST /grant that takes every action but allow for a mistake,
\* and stores the grants on deny as on allow
GrantPostWithDenyStored(csrf, action, env) ==
    LET b == getAndDeleteCsrfToken(Start)
        grantData == session.grantData
        authResponse == session.authResponse
        cleared == [b EXCEPT !.session.grantData = NoGrantData]
        grantList == grantData.existingGrants \o grantData.missingGrants
        stored == putGrants(cleared, session.authRequest, grantList)
        flow == scopeFlow(stored, world, env)
    IN  IF CsrfFails(session.csrfToken, csrf) THEN CsrfRejected(b)
        ELSE IF ~authResponse.defined
        THEN Fail(b, failMessage(403, "You are not logged in."), TRUE)
        ELSE IF ~grantData.defined
        THEN Fail(b, failMessage(500, "Invalid state: Must contain grant data in session."), TRUE)
        ELSE IF ~session.authRequest.defined
        THEN Fail(b, failMessage(500, "Invalid state: Session must contain auth request"), TRUE)
        ELSE IF action \in {"allow", "deny"}
        THEN IF env.portal # "ok" \/ authResponse.userId # USER
             THEN Fail(cleared, failError(500, upstreamError(0)), FALSE)
             ELSE [flow EXCEPT !.calls = @ \cup {GrantWrite(session.authRequest)}]
        ELSE Fail(cleared, failMessage(500, "Invalid action"), TRUE)

\* a handler of POST /grant that stores the missing grants alone
GrantPostWithMissingOnly(csrf, action, env) ==
    LET b == getAndDeleteCsrfToken(Start)
        grantData == session.grantData
        authResponse == session.authResponse
        cleared == [b EXCEPT !.session.grantData = NoGrantData]
        grantList == grantData.missingGrants
        stored == putGrants(cleared, session.authRequest, grantList)
        flow == scopeFlow(stored, world, env)
    IN  IF CsrfFails(session.csrfToken, csrf) THEN CsrfRejected(b)
        ELSE IF ~authResponse.defined
        THEN Fail(b, failMessage(403, "You are not logged in."), TRUE)
        ELSE IF ~grantData.defined
        THEN Fail(b, failMessage(500, "Invalid state: Must contain grant data in session."), TRUE)
        ELSE IF ~session.authRequest.defined
        THEN Fail(b, failMessage(500, "Invalid state: Session must contain auth request"), TRUE)
        ELSE IF action = "deny"
        THEN Fail(cleared, failOAuth(403, "access_denied",
                                     "Access to the API was denied by the user"), FALSE)
        ELSE IF action = "allow"
        THEN IF env.portal # "ok" \/ authResponse.userId # USER
             THEN Fail(cleared, failError(500, upstreamError(0)), FALSE)
             ELSE [flow EXCEPT !.calls = @ \cup {GrantWrite(session.authRequest)}]
        ELSE Fail(cleared, failMessage(500, "Invalid action"), TRUE)

\* the handler of POST /grant (createGrantPostHandler)
GrantPostWith(csrf, action, env) ==
    LET b == getAndDeleteCsrfToken(Start)
        grantData == session.grantData
        authResponse == session.authResponse
        cleared == [b EXCEPT !.session.grantData = NoGrantData]
        grantList == grantData.existingGrants \o grantData.missingGrants
        stored == putGrants(cleared, session.authRequest, grantList)
        flow == scopeFlow(stored, world, env)
    IN  IF CsrfFails(session.csrfToken, csrf) THEN CsrfRejected(b)
        ELSE IF ~authResponse.defined
        THEN Fail(b, failMessage(403, "You are not logged in."), TRUE)
        ELSE IF ~grantData.defined
        THEN Fail(b, failMessage(500, "Invalid state: Must contain grant data in session."), TRUE)
        ELSE IF ~session.authRequest.defined
        THEN Fail(b, failMessage(500, "Invalid state: Session must contain auth request"), TRUE)
        ELSE IF action = "deny"
        THEN Fail(cleared, failOAuth(403, "access_denied",
                                     "Access to the API was denied by the user"), FALSE)
        ELSE IF action = "allow"
        THEN IF env.portal # "ok" \/ authResponse.userId # USER
             THEN Fail(cleared, failError(500, upstreamError(0)), FALSE)
             ELSE [flow EXCEPT !.calls = @ \cup {GrantWrite(session.authRequest)}]
        ELSE Fail(cleared, failMessage(500, "Invalid action"), TRUE)

GrantPost(envs) ==
    /\ pending.kind = "none"
    /\ gateway.next <= MaxMint
    /\ CanRender
    /\ \E csrf \in FormTokens, action \in {"allow", "deny", Nil}, env \in envs :
          Leave(GrantPostWith(csrf, action, env), "/grant",
                Posting(Form("csrf", csrf, ~CsrfFails(session.csrfToken, csrf),
                             ~CsrfFails(session.csrfToken, csrf)),
                        IF CsrfFails(session.csrfToken, csrf) THEN Nil ELSE action))

\* the handler of POST /register
RegisterPostWith(nonce, env) ==
    LET b == Start
        userId == session.authResponse.userId
        stored == [b EXCEPT !.portal.registered = TRUE]
        flow == registrationFlow(stored, world, env)
    IN  IF nonce = 0
        THEN Fail(b, failMessage(400, "Registration nonce missing."), FALSE)
        ELSE IF nonce # session.registrationNonce
        THEN Fail(b, failMessage(400, "Registration nonce mismatch."), FALSE)
        ELSE IF env.portal # "ok" \/ userId # USER
        THEN Fail(b, failError(500, upstreamError(0)), FALSE)
        ELSE [flow EXCEPT !.calls = @ \cup {PortalWrite("registrations")}]

NonceFails(expected, nonce) == nonce = 0 \/ nonce # expected

RegisterPost(envs) ==
    /\ pending.kind = "none"
    /\ gateway.next <= MaxMint
    /\ CanRender
    /\ \E nonce \in FormTokens, env \in envs :
          Leave(RegisterPostWith(nonce, env), "/register",
                Form("nonce", nonce, ~NonceFails(session.registrationNonce, nonce),
                     ~NonceFails(session.registrationNonce, nonce)))

\* a handler of POST /selectnamespace that takes the namespace posted for
\* one of the page
SelectNamespacePostWithAnyNamespace(csrf, namespace, env) ==
    LET b == getAndDeleteCsrfToken(Start)
        validNamespaces == session.authRequest.validNamespaces
        cleared == [b EXCEPT !.session.authRequest.validNamespaces =
                                 NoAuthRequest.validNamespaces]
        chosen == [cleared EXCEPT !.session.authRequest.namespace = namespace]
    IN  IF CsrfFails(session.csrfToken, csrf) THEN CsrfRejected(b)
        ELSE IF ~validNamespaces.defined
        THEN Fail(b, failMessage(403, "Invalid state; missing list of valid namespaces."), FALSE)
        ELSE IF env.portal # "ok"
        THEN Fail(chosen, failError(500, upstreamError(0)), FALSE)
        ELSE registrationFlow(chosen, world, env)

\* the handler of POST /selectnamespace (createSelectNamespacePostHandler)
SelectNamespacePostWith(csrf, namespace, env) ==
    LET b == getAndDeleteCsrfToken(Start)
        validNamespaces == session.authRequest.validNamespaces
        cleared == [b EXCEPT !.session.authRequest.validNamespaces =
                                 NoAuthRequest.validNamespaces]
        chosen == [cleared EXCEPT !.session.authRequest.namespace = namespace]
    IN  IF CsrfFails(session.csrfToken, csrf) THEN CsrfRejected(b)
        ELSE IF ~validNamespaces.defined
        THEN Fail(b, failMessage(403, "Invalid state; missing list of valid namespaces."), FALSE)
        ELSE IF namespace \notin Range(validNamespaces.list)
        THEN Fail(cleared, failMessage(400, "Invalid namespace selected. This should not be possible."),
                  FALSE)
        ELSE IF env.portal # "ok"
        THEN Fail(chosen, failError(500, upstreamError(0)), FALSE)
        ELSE registrationFlow(chosen, world, env)

\* a POST that can get past the check of the namespace may render and mint
SelectNamespacePost(namespaces, envs) ==
    /\ pending.kind = "none"
    /\ session.authRequest.validNamespaces.defined => (gateway.next <= MaxMint /\ CanRender)
    /\ \E csrf \in FormTokens, namespace \in namespaces, env \in envs :
          Leave(SelectNamespacePostWith(csrf, namespace, env), "/selectnamespace",
                Posting(Form("csrf", csrf, ~CsrfFails(session.csrfToken, csrf),
                             ~CsrfFails(session.csrfToken, csrf)), namespace))

\* the one verification record the portal makes for the user's e-mail
VERIFICATION == "v1"

\* the handler of POST /verify (createVerifyPostHandler), for verifications
\* of type "email", with a DELETE of the verification that the portal
\* answers at once and with success
VerifyPostWith(csrf, id, type, env) ==
    LET b == getAndDeleteCsrfToken(Start)
        patched == [b EXCEPT !.portal.validated = TRUE,
                             !.portal.verifications = @ \ {id},
                             !.calls = {PortalWrite("users")}]
    IN  IF CsrfFails(session.csrfToken, csrf) THEN CsrfRejected(b)
        ELSE IF env.portal # "ok" THEN Fail(b, failError(500, upstreamError(0)), FALSE)
        ELSE IF id \notin portal.verifications
        THEN Fail(b, failMessage(404, "The given verification ID is not valid."), TRUE)
        ELSE IF type # "email"
        THEN Fail(b, failMessage(500, "Verification information found, does not match"), FALSE)
        ELSE Render(patched, "verify_email_post")

VerifyPost(envs) ==
    /\ pending.kind = "none"
    /\ CanRender
    /\ \E csrf \in FormTokens, id \in {VERIFICATION, "unknown"},
          type \in {"email", "lostpassword"}, env \in envs :
          Leave(VerifyPostWith(csrf, id, type, env), "/verify",
                Form("csrf", csrf, ~CsrfFails(session.csrfToken, csrf),
                     ~CsrfFails(session.csrfToken, csrf)))

\* the handler of POST /verifyemail (createVerifyEmailPostHandler)
VerifyEmailPostWith(csrf, env) ==
    LET b == getAndDeleteCsrfToken(Start)
        requested == [b EXCEPT !.portal.verifications = @ \cup {VERIFICATION},
                               !.calls = {PortalWrite("verifications")}]
    IN  IF ~session.authResponse.defined
        THEN Fail(b, failMessage(403, "You must be logged in to request email validation."),
                  FALSE)
        ELSE IF CsrfFails(session.csrfToken, csrf) THEN CsrfRejected(b)
        ELSE IF env.portal # "ok" THEN Fail(b, failError(500, upstreamError(0)), FALSE)
        ELSE Render(requested, "verify_email_request_confirm")

VerifyEmailPost(envs) ==
    /\ pending.kind = "none"
    /\ CanRender
    /\ \E csrf \in FormTokens, env \in envs :
          Leave(VerifyEmailPostWith(csrf, env), "/verifyemail",
                Form("csrf", csrf, ~CsrfFails(session.csrfToken, csrf),
                     session.authResponse.defined /\ ~CsrfFails(session.csrfToken, csrf)))

\* the user's email address and the id of a lostpassword verification; an
\* address is the sequence of its pieces, <<>> a field the form left out
EMAIL == <<"u1", "@", "example.org">>
RESET == "v-reset"

\* /.+@.+/.test(email): an @ with something before it and something after
emailValid(email) == \E i \in 2..(Len(email) - 1) : email[i] = "@"

\* the handler of GET /forgotpassword (createForgotPasswordHandler)
ForgotPasswordGet ==
    /\ pending.kind = "none"
    /\ CanRender
    /\ Leave(Render(Start, "forgot_password"), "GET /forgotpassword", NoForm)

\* a handler that looks the user up before it answers, and answers what it
\* found
ForgotPasswordPostWithLookupFirst(csrf, email) ==
    LET b == getAndDeleteCsrfToken(Start)
        issued == [b EXCEPT !.portal.verifications = @ \cup {RESET},
                            !.calls = {PortalWrite("verifications")}]
    IN  IF CsrfFails(session.csrfToken, csrf) THEN CsrfRejected(b)
        ELSE IF emailValid(email) /\ email = EMAIL /\ portal.userExists
        THEN Render(issued, "forgot_password_post")
        ELSE Fail(b, failMessage(404, "No such user."), TRUE)

\* the handler of POST /forgotpassword (createForgotPasswordPostHandler):
\* wicked.getUserByEmail is started for a valid address and the page is
\* rendered without waiting for its answer
ForgotPasswordPostWith(csrf, email) ==
    LET b == getAndDeleteCsrfToken(Start)
        asked == IF emailValid(email) THEN [b EXCEPT !.portal.lookups = @ \cup {email}] ELSE b
    IN  IF CsrfFails(session.csrfToken, csrf) THEN CsrfRejected(b)
        ELSE Render(asked, "forgot_password_post")

ForgotPasswordPost(emails) ==
    /\ pending.kind = "none"
    /\ CanRender
    /\ \E csrf \in FormTokens, email \in emails :
          Leave(ForgotPasswordPostWith(csrf, email), "/forgotpassword",
                Posting(Form("csrf", csrf, ~CsrfFails(session.csrfToken, csrf),
                             ~CsrfFails(session.csrfToken, csrf)), email))

\* the callback of wicked.getUserByEmail: for exactly one user the
\* lostpassword verification is posted to the portal; an error or any other
\* list is logged
GetUserByEmailDone ==
    /\ \E email \in portal.lookups, answer \in {"ok", "err"} :
          portal' = [portal EXCEPT
                        !.lookups = @ \ {email},
                        !.verifications =
                            IF answer = "ok" /\ email = EMAIL /\ portal.userExists
                            THEN @ \cup {RESET} ELSE @]
    /\ UNCHANGED <<sv, cache, world, session, gateway, profileStore, pending, resp, calls, hist>>

\* renderUserScopesWithMessage of a user who is logged in
renderUserScopesWithMessage(b, env, view) ==
    IF env.portal # "ok" THEN Fail(b, failError(500, upstreamError(0)), FALSE)
    ELSE Render(b, view)

\* the handler of POST /grants (GrantManager.revokeUserScope)
GrantsPostWith(csrf, target, env) ==
    LET b == getAndDeleteCsrfToken(Start)
        revoked == [b EXCEPT !.portal.grants = <<>>, !.calls = {PortalWrite("grants")}]
    IN  IF ~session.authResponse.defined
        THEN \* utils.loginAndRedirectBack
             [Start EXCEPT !.resp = Response("redirect", 302, Nil, FALSE, "login", NoKey)]
        ELSE IF CsrfFails(session.csrfToken, csrf)
        THEN renderUserScopesWithMessage(b, env, "scope_list_error")
        ELSE IF target = Nil
        THEN Fail(b, failMessage(400, "Invalid request, revoke_app and/or revoke_api not defined."),
                  FALSE)
        ELSE IF env.portal # "ok" THEN Fail(b, failError(500, upstreamError(0)), FALSE)
        ELSE IF session.authResponse.userId # USER \/ portal.grants = <<>>
        THEN renderUserScopesWithMessage(b, env, "scope_list_warning")
        ELSE renderUserScopesWithMessage(revoked, env, "scope_list_success")

GrantsPost(envs) ==
    /\ pending.kind = "none"
    /\ CanRender
    /\ \E csrf \in FormTokens, target \in {"app", Nil}, env \in envs :
          Leave(GrantsPostWith(csrf, target, env), "/grants",
                Form("csrf", csrf, ~CsrfFails(session.csrfToken, csrf),
                     session.authResponse.defined /\ ~CsrfFails(session.csrfToken, csrf)))

\* ------------------------------------------------------------------------
\* Specifications of the server
\* ------------------------------------------------------------------------

\* the catalogue of the API the server is run with
ApiScopes == << <<"r">>, <<"w">> >>

\* the scope validation is not run on its own in these specifications
IdleScope ==
    [fetch |-> ApiFetch("ok", ApiScopes), scope |-> <<>>, trusted |-> FALSE, done |-> TRUE,
     result |-> NoScopeResult]

InitServer(worlds) ==
    /\ sv = IdleScope
    /\ world \in worlds
    /\ session = NewSession
    /\ portal \in {NewPortal, [NewPortal EXCEPT !.registered = TRUE]}
    /\ world.registrationPool = Nil => ~portal.registered
    /\ gateway = NewGateway
    /\ profileStore = NewProfileStore
    /\ pending = NoPending
    /\ resp = NoResponse
    /\ calls = {}
    /\ hist = NewHist
    /\ cache = ColdCache

\* Specification SpecToken: clients talk to the token end point and to
\* /profile, for every kind of subscription, application and API
TokenWorlds ==
    {World(ApiScopes, trusted, confidential, FALSE, FALSE, Nil, <<>>) :
        trusted \in BOOLEAN, confidential \in BOOLEAN}
    \cup {World(ApiScopes, TRUE, TRUE, FALSE, FALSE, POOL, <<>>)}

TokenEnvs ==
    {AllUp,
     [AllUp EXCEPT !.gw = "down"],
     [AllUp EXCEPT !.gw = "reject"],
     [AllUp EXCEPT !.gw = "reject", !.reject = 401],
     [AllUp EXCEPT !.reject = 401],
     [AllUp EXCEPT !.store = "err"],
     [AllUp EXCEPT !.portal = "err"],
     [AllUp EXCEPT !.idp = "err"]}

InitToken == InitServer(TokenWorlds)

NextToken ==
    \/ PostToken(TokenRequests(hist), TokenEnvs)
    \/ RegisterTokenOrCodeDone
    \/ GetProfile

SpecToken == InitToken /\ [][NextToken]_vars

\* what the last request posted to the token end point
LastTokenRequest == hist.last.request

\* the last request was a POST /token of the known client, and it is answered
TokenAnswered ==
    /\ hist.last.route = "token"
    /\ LastTokenRequest.client_id = CID
    /\ pending.kind = "none"

\* the response carries a token
TokenIssued == resp.kind = "json" /\ resp.status = 200 /\ resp.body = "token"

\* C7: a password grant of a subscription that is not trusted fails with
\* invalid_request whatever username, password and client_secret it carries,
\* and neither the identity provider's authorizeByUserPass nor the gateway's
\* token end point is called for it.
C7_UntrustedPasswordGrantRefused ==
    (TokenAnswered /\ LastTokenRequest.grant_type = "password" /\ ~world.trusted)
        => /\ resp.kind = "json"
           /\ resp.status >= 400
           /\ resp.error = "invalid_request"
           /\ CallsTo(calls, "idp.userpass") = {}
           /\ CallsTo(calls, "gw.token") = {}

\* the untrusted subscription's client posts the right secret, username and
\* password, and is refused with 400
C7_Witness ==
    /\ TokenAnswered /\ LastTokenRequest.grant_type = "password" /\ ~world.trusted
    /\ world.confidential
    /\ LastTokenRequest.client_secret = SECRET
    /\ LastTokenRequest.username = USER
    /\ LastTokenRequest.password = PASSWORD
    /\ resp.status = 400 /\ resp.error = "invalid_request"

\* the last request was a POST /token for the confidential application with
\* a client_secret that is not the subscription's
WrongSecretPosted ==
    /\ TokenAnswered
    /\ world.confidential
    /\ LastTokenRequest.client_secret \notin {SECRET, Nil}

\* the request was refused before any collaborator was called because a
\* parameter is missing or the subscription or the refresh token could not
\* be found
RefusedUnvalidated ==
    /\ calls = {}
    /\ \/ resp.status = 400 /\ resp.error = "invalid_request"
       \/ resp.status = 403 /\ resp.error = "unauthorized_client"

\* C8 as the specification states it: every grant type with a wrong
\* client_secret is answered 401 by the server's own check.
C8_WrongSecretIs401 ==
    (WrongSecretPosted /\ ~RefusedUnvalidated)
        => (resp.status = 401 /\ CallsTo(calls, "gw.token") = {})

\* C8: for a confidential application no request with a wrong client_secret
\* is given a token; the password grant with a username is answered 401 by
\* the server's own comparison before the identity provider or the gateway
\* is called (400 when the subscription cannot be read), while for the
\* other grant types the server compares nothing: it hands the secret to the
\* gateway, and a 401 is only ever the gateway's answer.
C8_WrongSecretRefused ==
    WrongSecretPosted
        => /\ ~TokenIssued
           /\ resp.status >= 400
           /\ (LastTokenRequest.grant_type = "password" /\ LastTokenRequest.username # Nil)
                 => /\ calls = {}
                    /\ resp.error = "invalid_request"
                    /\ resp.status \in {400, 401}
           /\ (LastTokenRequest.grant_type # "password" /\ resp.status = 401)
                 => CallsTo(calls, "gw.token") # {}

\* a password grant with username, password and a wrong secret is answered
\* 401 with no call made
C8_Witness ==
    /\ WrongSecretPosted
    /\ LastTokenRequest.grant_type = "password"
    /\ LastTokenRequest.username = USER
    /\ LastTokenRequest.password = PASSWORD
    /\ world.trusted
    /\ resp.status = 401 /\ resp.error = "invalid_request"
    /\ calls = {}

\* C16: every answer of POST /api/:apiId/token is JSON: the token object
\* with status 200, or an object with the OAuth2 error and its description;
\* never a rendered page.
C16_TokenAnswersJson ==
    (hist.last.route = "token" /\ pending.kind = "none")
        => /\ resp.kind = "json"
           /\ resp.status = 200 => resp.body = "token"
           /\ resp.status # 200 => (resp.body = "error" /\ resp.error # Nil)

\* Specification SpecCode: the browser logs in and authorizes the
\* confidential application, which exchanges the code, refreshes the token
\* and asks for the profile; the gateway or the profile store may fail
CodeWorlds ==
    {World(ApiScopes, trusted, TRUE, ptUsers, ptScopeUrl, Nil, <<>>) :
        trusted \in BOOLEAN, ptUsers \in BOOLEAN, ptScopeUrl \in BOOLEAN}

CodeQueries ==
    {Query(CID, "code", REDIRECT, Undefined, Nil),
     Query(CID, "code", REDIRECT, <<"r">>, Nil),
     Query(CID, "token", REDIRECT, Undefined, Nil)}

CodeEnvs ==
    {AllUp,
     [AllUp EXCEPT !.idp = "okprofile"],
     [AllUp EXCEPT !.ext = ExtAnswer("ok", "true", <<"ext:7">>, << <<"s2">>, <<"s3">> >>)],
     [AllUp EXCEPT !.gw = "down"],
     [AllUp EXCEPT !.store = "err"]}

CodeRequests(h) ==
    {TokenRequest("client_credentials", CID, SECRET, NoKey, Undefined, Nil, Nil, NoKey),
     TokenRequest("password", CID, SECRET, NoKey, Undefined, USER, PASSWORD, NoKey)}
    \cup {TokenRequest("authorization_code", CID, SECRET, k, Undefined, Nil, Nil, NoKey) :
             k \in KeysOf(h, "code") \cup {CodeKey(0)}}
    \cup {TokenRequest("refresh_token", CID, SECRET, NoKey, Undefined, Nil, Nil, k) :
             k \in KeysOf(h, "rt") \cup {RefreshKey(0)}}

InitCode == InitServer(CodeWorlds)

NextCode ==
    \/ Authorize(CodeQueries, CodeEnvs)
    \/ Login(CodeEnvs)
    \/ RegisterTokenOrCodeDone
    \/ PostToken(CodeRequests(hist), CodeEnvs)
    \/ GetProfile

SpecCode == InitCode /\ [][NextCode]_vars

\* the profile the authorize redirect that carried code was made with
IssuedWith(code) == {i.profile : i \in {j \in hist.issued : j.key = code}}

\* C1: the access token a code was exchanged for maps, in the profile
\* store, to exactly the profile the session's AuthResponse held when the
\* code was issued, and every profile GET /profile answers with for that
\* token is that profile.
C1_ProfileOfCodeFollowsToken ==
    \A e \in hist.exchanged :
        \A P \in IssuedWith(e.code) :
            e.token \notin hist.revoked
                => /\ retrieve(profileStore, e.token) = P
                   /\ (hist.last.route = "/profile" /\ resp.key = e.token /\ resp.status = 200)
                         => resp.profile = P

\* GET /profile with the token of an exchanged code answered 200 with the
\* profile of the authorize redirect, which is the portal user's
C1_Witness ==
    \E e \in hist.exchanged :
        /\ hist.last.route = "/profile" /\ resp.key = e.token /\ resp.status = 200
        /\ resp.profile.defined
        /\ resp.profile \in IssuedWith(e.code)
        /\ resp.profile.sub = <<USER>>

HandsKey ==
    \/ resp.kind = "redirect" /\ resp.key # NoKey
    \/ TokenIssued

\* C3 as the specification states it: whatever code or token a response
\* hands out is registered in the profile store by then.
C3_EveryKeyRegistered ==
    HandsKey => retrieve(profileStore, resp.key).defined

\* the token responses of grants that carry a user's profile: the code
\* exchange, the refresh, and the password grant of an API whose users are
\* the portal's
GrantWithProfile ==
    /\ TokenIssued
    /\ \/ resp.grant \in {"authorization_code", "refresh_token"}
       \/ resp.grant = "password" /\ ~world.passthroughUsers

\* C3: the code or token of an authorize redirect is registered with the
\* session's profile when the redirect is written, and the tokens of a
\* token response that comes with a user profile are registered when the
\* 200 is written; a token that comes with no profile (client_credentials,
\* and the password grant of a passthrough API whose identity provider
\* gives none) is handed out without any registration.
C3_RegisteredBeforeWritten ==
    /\ (resp.kind = "redirect" /\ resp.key # NoKey)
          => /\ resp.profile.defined
             /\ retrieve(profileStore, resp.key) = resp.profile
    /\ GrantWithProfile
          => /\ retrieve(profileStore, resp.key).defined
             /\ resp.refresh # NoKey
                   => retrieve(profileStore, resp.refresh) = retrieve(profileStore, resp.key)
    /\ (TokenIssued /\ resp.grant = "client_credentials")
          => ~retrieve(profileStore, resp.key).defined

\* a password grant's 200 with both of its tokens registered
C3_Witness ==
    /\ TokenIssued
    /\ resp.grant = "password"
    /\ resp.refresh # NoKey
    /\ retrieve(profileStore, resp.key).defined
    /\ retrieve(profileStore, resp.refresh) = retrieve(profileStore, resp.key)

\* the last request posted a refresh_token grant that names the client and
\* a refresh token
RefreshPosted ==
    /\ hist.last.route = "token"
    /\ LastTokenRequest.grant_type = "refresh_token"
    /\ LastTokenRequest.client_id # Nil
    /\ LastTokenRequest.refresh_token # NoKey

\* the answers of the passthrough scope service to the last request that
\* allowed it
ScopeServiceAllowed ==
    {c.answered : c \in {d \in CallsTo(calls, "ext.scope") :
                             d.answered.kind = "ok" /\ truthy(d.answered.allow)}}

\* the access token that was minted together with the refresh token posted
PreviousAccessToken == AccessKey(LastTokenRequest.refresh_token[2])

C18_UnsupportedRefreshIs500 ==
    (RefreshPosted /\ world.passthroughUsers # world.passthroughScopeUrl)
        => /\ pending.kind = "none"
           /\ resp.kind = "json" /\ resp.key = NoKey
           /\ CallsTo(calls, "idp.refresh") = {}
           /\ CallsTo(calls, "ext.scope") = {}
           /\ CallsTo(calls, "gw.token") = {}
           /\ IF resp.description = "could not retrieve information on the given refresh token."
              THEN resp.status = 400 /\ resp.error = "invalid_request"
              ELSE /\ resp.status = 500 /\ resp.error = "server_error"
                   /\ GwTokenOfRefresh(gateway, LastTokenRequest.refresh_token) # {}

\* the refresh token of a code exchange on an API with passthrough users
\* and no scope URL is posted and refused with 500
C18_Witness ==
    /\ RefreshPosted
    /\ world.passthroughUsers /\ ~world.passthroughScopeUrl
    /\ LastTokenRequest.refresh_token \in hist.handed
    /\ resp.status = 500 /\ resp.error = "server_error"
    /\ calls = {}

\* Specification SpecConsent: the browser asks for scopes of an API, logs
\* in, and allows or denies them on the consent page
ConsentWorlds ==
    {World(ApiScopes, FALSE, TRUE, FALSE, FALSE, Nil, groups) : groups \in {<<>>, <<"dev">>}}
    \cup {World(ApiScopes, TRUE, TRUE, FALSE, FALSE, Nil, <<>>),
          World(ApiScopes, FALSE, TRUE, FALSE, TRUE, Nil, <<>>)}

ConsentQueries ==
    {Query(CID, "code", REDIRECT, sc, Nil) : sc \in AuthorizeScopes}
    \cup {Query(CID, "token", REDIRECT, <<"r">>, pr) : pr \in {Nil, "none"}}

ConsentEnvs ==
    {AllUp,
     [AllUp EXCEPT !.gw = "down"],
     [AllUp EXCEPT !.portal = "err"],
     [AllUp EXCEPT !.ext = ExtAnswer("ok", "false", <<>>, <<>>)]}

InitConsent == InitServer(ConsentWorlds)

NextConsent ==
    \/ Authorize(ConsentQueries, ConsentEnvs)
    \/ Login(ConsentEnvs)
    \/ RegisterTokenOrCodeDone
    \/ GrantPost(ConsentEnvs)

SpecConsent == InitConsent /\ [][NextConsent]_vars

\* the API asks the user's consent for scopes: an untrusted subscription
\* and no passthroughScopeUrl
ConsentApplies == ~world.trusted /\ ~world.passthroughScopeUrl

\* the scopes of list that the portal holds no grant for
MissingOf(list) == {list[i] : i \in 1..Len(list)} \ Range(portal.grants)

\* the consent page was rendered by the last request
ConsentRendered == resp.kind = "render" /\ resp.body = "grant_scopes"

\* the last request ran the authorize flow for a logged-in user with a
\* validated, non-empty scope list of catalogue names, and no collaborator
\* failed in it
ScopesAsked ==
    /\ ConsentApplies
    /\ hist.last.route \in {"authorize", "login"}
    /\ session.authResponse.defined
    /\ session.authRequest.scopeKind = "list"
    /\ session.authRequest.scope # <<>>
    /\ \A i \in 1..Len(session.authRequest.scope) :
           HasScope(world.apiScopes, session.authRequest.scope[i])
    /\ resp.status \notin {401, 500}

\* C4: with consent applying and a non-empty scope, the gateway's authorize
\* end point is called only for an AuthRequest all of whose scopes the
\* portal holds grants for; while one is missing the request renders the
\* consent page for exactly the missing ones, calls no gateway and leaves
\* nothing to hand out.
C4_GatewayOnlyWhenGranted ==
    /\ ConsentApplies
          => \A c \in CallsTo(calls, "gw.authorize") :
                 c.asked # <<>> => MissingOf(c.asked) = {}
    /\ (ScopesAsked /\ MissingOf(session.authRequest.scope) # {})
          => /\ ConsentRendered
             /\ Range(session.grantData.missingGrants) = MissingOf(session.authRequest.scope)
             /\ CallsTo(calls, "gw.authorize") = {}
             /\ pending.kind = "none"
             /\ resp.key = NoKey
    /\ (ConsentApplies /\ ConsentRendered)
          => /\ CallsTo(calls, "gw.authorize") = {}
             /\ pending.kind = "none"

\* the user allowed a scope before, asks for it again together with one not
\* yet granted, and is shown the consent page for that one
C4_Witness ==
    /\ ScopesAsked
    /\ portal.grants # <<>>
    /\ ConsentRendered
    /\ MissingOf(session.authRequest.scope) # {}
    /\ Range(session.authRequest.scope) \ MissingOf(session.authRequest.scope) # {}

\* the scope parameter of the last authorize request names a scope the
\* catalogue does not have
NamesUnknownScope ==
    /\ hist.last.route = "authorize"
    /\ session.authRequest.scopeKind = "string"
    /\ LET names == Split([i \in 1..Len(session.authRequest.scope) |->
                              session.authRequest.scope[i][1]])
       IN  \E i \in 1..Len(names) : ~HasScope(world.apiScopes, names[i])

\* C5: an authorize request of an untrusted subscription (which the server
\* found, so that app_id is set) naming an unknown scope fails with the
\* OAuth2 error invalid_scope, unless the catalogue could not be read.
C5_UnknownScopeIsInvalidScope ==
    (NamesUnknownScope /\ ~world.trusted /\ session.authRequest.app_id # Nil
        /\ resp.status # 500)
        => resp.error = "invalid_scope"

\* a step that handles POST /grant with the token of the consent page and
\* action deny, for a logged-in user whom the page listed missing grants
DenyPosted ==
    /\ pending.kind = "none"
    /\ session.csrfToken # 0
    /\ session.grantData.defined /\ session.grantData.missingGrants # <<>>
    /\ session.authResponse.defined
    /\ session.authRequest.defined /\ session.authRequest.redirect_uri # Nil
    /\ hist'.last.route = "/grant" /\ hist'.last.matched /\ hist'.last.posted = "deny"

\* C13: when the consent page lists missing grants and the logged-in user
\* posts /grant with the page's CSRF token and action deny, the answer is
\* the redirect to the AuthRequest's redirect_uri carrying the error
\* access_denied, the portal's grants stay as they were, the gateway is not
\* called and no code or token is minted or left to hand out.
C13_DenyRedirectsAccessDenied ==
    [][DenyPosted
          => /\ resp'.kind = "redirect" /\ resp'.status = 302
             /\ resp'.error = "access_denied" /\ resp'.body = "error"
             /\ resp'.key = NoKey
             /\ portal' = portal
             /\ gateway' = gateway
             /\ CallsTo(calls', "portal.write") = {}
             /\ CallsTo(calls', "gw.authorize") = {}
             /\ pending'.kind = "none"
             /\ ~session'.grantData.defined]_vars

\* the logged-in user posts /grant with the session's CSRF token and action
\* allow while the session holds grant data, and the portal stores the
\* grant record
AllowPosted ==
    /\ pending.kind = "none"
    /\ session.csrfToken # 0
    /\ session.grantData.defined
    /\ session.authResponse.defined
    /\ session.authRequest.defined
    /\ hist'.last.route = "/grant" /\ hist'.last.matched /\ hist'.last.posted = "allow"
    /\ CallsTo(calls', "portal.write") # {}

C13_Witness ==
    /\ hist.last.route = "/grant" /\ hist.last.matched /\ hist.last.posted = "deny"
    /\ resp.kind = "redirect" /\ resp.error = "access_denied"
    /\ session.authRequest.scope # <<>>
    /\ portal.grants = <<>>
    /\ gateway = NewGateway
    /\ calls = {}

\* the routes of the authorize flow
AuthorizeRoutes == {"authorize", "login", "/grant"}

\* the last request was one of the authorize flow and ended in an OAuth2
\* error
OAuthErrorRaised ==
    /\ hist.last.route \in AuthorizeRoutes
    /\ pending.kind = "none"
    /\ resp.error # Nil

\* C17 as the specification states it: an OAuth2 error of the authorize
\* flow is answered by the redirect to the session's redirect_uri whenever
\* the session holds one.
C17_ErrorRedirectsWithRedirectUri ==
    (OAuthErrorRaised /\ session.authRequest.redirect_uri # Nil)
        => (resp.kind = "redirect" /\ resp.status = 302)

\* C17: an OAuth2 error of the authorize flow is answered by the 302 to the
\* session's redirect_uri with the error when a user is logged in and the
\* session's AuthRequest holds a redirect_uri; in every other case it is
\* answered by the application's handler with the JSON object of the error
\* and the error's status.
C17_ErrorRedirectsWhenLoggedIn ==
    OAuthErrorRaised
        => IF /\ session.authResponse.defined
              /\ session.authRequest.defined
              /\ session.authRequest.redirect_uri # Nil
           THEN resp.kind = "redirect" /\ resp.status = 302 /\ resp.body = "error"
           ELSE resp.kind = "json" /\ resp.status >= 400 /\ resp.body = "error"

\* a logged-in user's authorize request failed at the gateway and the
\* error went to the redirect_uri
C17_Witness ==
    /\ OAuthErrorRaised
    /\ hist.last.route = "authorize"
    /\ session.authResponse.defined
    /\ resp.kind = "redirect" /\ resp.error = "server_error"
    /\ CallsTo(calls, "gw.authorize") # {}

\* Specification SpecForms: the browser posts the forms of the pages it
\* was shown, with the token of a page, an old one or none
FormWorlds ==
    {World(ApiScopes, FALSE, TRUE, FALSE, FALSE, pool, <<>>) : pool \in {Nil, POOL}}

FormQueries ==
    {Query(CID, "code", REDIRECT, Undefined, Nil),
     Query(CID, "code", REDIRECT, <<"r">>, Nil)}

FormEnvs == {AllUp, [AllUp EXCEPT !.portal = "err"]}

InitForms == InitServer(FormWorlds)

NextForms ==
    \/ Authorize(FormQueries, FormEnvs)
    \/ Login(FormEnvs)
    \/ RegisterTokenOrCodeDone
    \/ GrantPost(FormEnvs)
    \/ RegisterPost(FormEnvs)
    \/ SelectNamespacePost({Nil}, {AllUp})
    \/ VerifyPost(FormEnvs)
    \/ VerifyEmailPost(FormEnvs)
    \/ GrantsPost(FormEnvs)

SpecForms == InitForms /\ [][NextForms]_vars
\* the routes of the state-mutating POSTs
FormRoutes == {"/register", "/selectnamespace", "/grant", "/verify", "/verifyemail", "/grants"}

\* the last request was a POST of a form whose token or nonce was missing
\* or not the session's
MismatchPosted == hist.last.route \in FormRoutes /\ ~hist.last.matched

\* the last request wrote nothing to the portal, called no gateway and
\* leaves nothing to hand out
NothingDone ==
    /\ CallsTo(calls, "portal.write") = {}
    /\ CallsTo(calls, "gw.authorize") = {}
    /\ pending.kind = "none"
    /\ resp.key = NoKey

\* C9 as the specification states it: every such POST is answered 403 after
\* the delay and does nothing.
C9_MismatchIs403Delayed ==
    MismatchPosted => (resp.status = 403 /\ resp.delay = ERROR_TIMEOUT /\ NothingDone)

\* C9: a state-mutating POST without the session's token writes nothing to
\* the portal and mints nothing; /grant, /selectnamespace and /verify
\* answer 403 after the delay, /verifyemail answers 403 (at once when nobody
\* is logged in), /register answers 400 at once, and /grants answers at
\* once with the login redirect or the list of grants carrying an error
\* message.
C9_MismatchDoesNothing ==
    MismatchPosted
        => /\ NothingDone
           /\ hist.last.route \in {"/grant", "/selectnamespace", "/verify"}
                 => (resp.status = 403 /\ resp.delay = ERROR_TIMEOUT)
           /\ hist.last.route = "/verifyemail"
                 => /\ resp.status = 403
                    /\ resp.delay = IF session.authResponse.defined THEN ERROR_TIMEOUT ELSE 0
           /\ hist.last.route = "/register"
                 => (resp.status = 400 /\ resp.delay = 0)
           /\ hist.last.route = "/grants"
                 => /\ resp.delay = 0
                    /\ resp.status # 403
                    /\ \/ resp.kind = "redirect" /\ resp.body = "login"
                       \/ resp.kind = "render" /\ resp.body = "scope_list_error"
                       \/ resp.status = 500

\* the consent page is open, and a POST /grant with another token than the
\* page's is answered 403 after the delay
C9_Witness ==
    /\ MismatchPosted
    /\ hist.last.route = "/grant"
    /\ session.grantData.defined
    /\ session.authResponse.defined
    /\ resp.status = 403 /\ resp.delay = ERROR_TIMEOUT

\* C10: no value of a CSRF token or registration nonce is accepted by two
\* POSTs of the session.
C10_TokensAreSingleUse ==
    hist.reused = {}

\* Specification SpecPrompt: the browser sends authorize requests of both
\* response types with and without the prompt parameter, in a fresh session
\* and after logging in
PromptWorlds ==
    {World(ApiScopes, trusted, TRUE, FALSE, FALSE, Nil, <<>>) : trusted \in BOOLEAN}

PromptQueries ==
    {Query(CID, rt, REDIRECT, <<"r">>, pr) :
        rt \in {"code", "token"}, pr \in {Nil, "none", "login"}}
    \cup {Query(Nil, "token", REDIRECT, <<"r">>, "none"),
          Query(CID, "token", REDIRECT, <<"d">>, "none")}

PromptEnvs ==
    {AllUp,
     [AllUp EXCEPT !.portal = "err"],
     [AllUp EXCEPT !.gw = "down"]}

InitPrompt == InitServer(PromptWorlds)

NextPrompt ==
    \/ Authorize(PromptQueries, PromptEnvs)
    \/ Login(PromptEnvs)
    \/ RegisterTokenOrCodeDone

SpecPrompt == InitPrompt /\ [][NextPrompt]_vars

\* the last request was a valid authorize request with prompt=none (its
\* scope was validated into a list) in a session nobody is logged in to
PromptNoneNotLoggedIn ==
    /\ hist.last.route = "authorize"
    /\ session.authRequest.prompt = "none"
    /\ session.authRequest.scopeKind = "list"
    /\ ~session.authResponse.defined

\* C12: a valid authorize request with prompt=none, of either response
\* type, in a session that is not logged in fails with login_required (401,
\* or the error redirect), and the identity provider's authorizeWithUi is
\* not invoked for it.
C12_PromptNoneNeedsLogin ==
    PromptNoneNotLoggedIn
        => /\ resp.error = "login_required"
           /\ resp.status \in {401, 302}
           /\ CallsTo(calls, "idp.ui") = {}

\* this step handles a valid authorize request with prompt=login in a
\* session somebody is logged in to
PromptLoginLoggedIn ==
    /\ hist'.last.route = "authorize"
    /\ pending.kind = "none"
    /\ session.authResponse.defined
    /\ session'.authRequest.prompt = "login"
    /\ session'.authRequest.scopeKind = "list"

\* C29: a valid authorize request with prompt=login, of either response
\* type, in a logged-in session removes the session's AuthResponse and
\* invokes the identity provider's login UI; no code or token is made for
\* the identity the session held.
C29_PromptLoginWipesIdentity ==
    [][PromptLoginLoggedIn
          => /\ ~session'.authResponse.defined
             /\ CallsTo(calls', "idp.ui") # {}
             /\ CallsTo(calls', "gw.authorize") = {}
             /\ resp'.key = NoKey
             /\ pending'.kind = "none"]_vars

\* ------------------------------------------------------------------------
\* Specification SpecRefresh: a trusted client obtains tokens for the portal
\* user with the password grant and refreshes them, while the portal may
\* delete the user
\* ------------------------------------------------------------------------

RefreshWorlds ==
    {World(ApiScopes, TRUE, confidential, FALSE, FALSE, Nil, <<>>) : confidential \in BOOLEAN}

RefreshEnvs ==
    {AllUp,
     [AllUp EXCEPT !.idp = "err"],
     [AllUp EXCEPT !.gw = "down"],
     [AllUp EXCEPT !.store = "err"]}

RefreshRequests(h) ==
    {TokenRequest("client_credentials", CID, SECRET, NoKey, Undefined, Nil, Nil, NoKey),
     TokenRequest("password", CID, SECRET, NoKey, Undefined, USER, PASSWORD, NoKey)}
    \cup {TokenRequest("refresh_token", CID, SECRET, NoKey, Undefined, Nil, Nil, k) :
             k \in KeysOf(h, "rt") \cup {RefreshKey(0)}}

\* the portal's DELETE /users/<id>: the user is gone, the gateway's tokens
\* stay
DeleteUser ==
    /\ portal.userExists
    /\ portal' = [portal EXCEPT !.userExists = FALSE]
    /\ UNCHANGED <<sv, cache, world, session, gateway, profileStore, pending, resp, calls, hist>>

InitRefresh == InitServer(RefreshWorlds)

NextRefresh ==
    \/ PostToken(RefreshRequests(hist), RefreshEnvs)
    \/ RegisterTokenOrCodeDone
    \/ GetProfile
    \/ DeleteUser

SpecRefresh == InitRefresh /\ [][NextRefresh]_vars

\* this step handles a refresh_token grant for a refresh token of the
\* gateway whose authenticated_userid names a user, while the portal has no
\* such user
RefreshForDeletedUser ==
    /\ pending.kind = "none" /\ portal' = portal
    /\ hist'.last.route = "token"
    /\ hist'.last.request.grant_type = "refresh_token"
    /\ hist'.last.request.client_id # Nil
    /\ ~world.passthroughUsers /\ ~world.passthroughScopeUrl
    /\ \E t \in GwTokenOfRefresh(gateway, hist'.last.request.refresh_token) :
           extractUserId(t.userid) # <<>>
    /\ ~portal.userExists

\* C11: a refresh_token grant for a token whose authenticated_userid names
\* a portal user that no longer exists fails with 400 invalid_request (with
\* 500 server_error if already the identity provider's refresh check
\* failed); the gateway's token end point is not called, the gateway mints
\* nothing and nothing is registered.
C11_DeletedUserCannotRefresh ==
    [][RefreshForDeletedUser
          => /\ resp'.kind = "json" /\ resp'.key = NoKey
             /\ IF resp'.description = "checking the refresh token"
                THEN resp'.status = 500 /\ resp'.error = "server_error"
                ELSE resp'.status = 400 /\ resp'.error = "invalid_request"
             /\ CallsTo(calls', "gw.token") = {}
             /\ gateway' = gateway
             /\ profileStore' = profileStore
             /\ pending'.kind = "none"]_vars

\* the refresh token of a password grant was posted after the user was
\* deleted: the identity provider accepted it, the portal did not know the
\* user, and the answer is the 400
C11_Witness ==
    /\ RefreshPosted
    /\ LastTokenRequest.refresh_token \in hist.handed
    /\ ~portal.userExists
    /\ resp.status = 400 /\ resp.error = "invalid_request"
    /\ resp.description = "user is not a valid user (anymore)"
    /\ CallsTo(calls, "idp.refresh") # {}
    /\ CallsTo(calls, "gw.token") = {}


\* ------------------------------------------------------------------------
\* Specification SpecFlags: the flows against gateways whose oauth2 plugin
\* enables some grants and not others
\* ------------------------------------------------------------------------

FlagConfigs ==
    {KongOAuth2Config(cc, implicit, code, password) :
        cc \in BOOLEAN, implicit \in BOOLEAN, code \in BOOLEAN, password \in BOOLEAN}

FlagWorlds ==
    {[World(ApiScopes, TRUE, TRUE, FALSE, FALSE, Nil, <<>>) EXCEPT !.oauth2Config = cfg] :
        cfg \in FlagConfigs}

FlagQueries ==
    {Query(CID, "code", REDIRECT, Undefined, Nil),
     Query(CID, "token", REDIRECT, Undefined, Nil)}

FlagEnvs == {AllUp, [AllUp EXCEPT !.gw = "reject"]}

FlagRequests(h) ==
    {TokenRequest("client_credentials", CID, SECRET, NoKey, Undefined, Nil, Nil, NoKey),
     TokenRequest("password", CID, SECRET, NoKey, Undefined, USER, PASSWORD, NoKey),
     TokenRequest("password", CID, "bad", NoKey, Undefined, USER, PASSWORD, NoKey)}
    \cup {TokenRequest("authorization_code", CID, SECRET, k, Undefined, Nil, Nil, NoKey) :
             k \in KeysOf(h, "code") \cup {CodeKey(0)}}
    \cup {TokenRequest("refresh_token", CID, SECRET, NoKey, Undefined, Nil, Nil, k) :
             k \in KeysOf(h, "rt")}

InitFlags == InitServer(FlagWorlds)

NextFlags ==
    \/ Authorize(FlagQueries, FlagEnvs)
    \/ Login(FlagEnvs)
    \/ RegisterTokenOrCodeDone
    \/ PostToken(FlagRequests(hist), FlagEnvs)

SpecFlags == InitFlags /\ [][NextFlags]_vars

\* the calls the last request made to the gateway's authorize and token
\* end points
GatewayCalls == CallsTo(calls, "gw.authorize") \cup CallsTo(calls, "gw.token")

\* the grant the last request asked for: the grant_type posted to the token
\* end point, the response_type of the session's AuthRequest otherwise
LastGrant ==
    IF hist.last.route = "token" THEN LastTokenRequest.grant_type
    ELSE IF session.authRequest.defined THEN session.authRequest.response_type
    ELSE Nil

\* the flag of the plugin's configuration that enables the grant; a refresh
\* has none
FlagOf(grant) ==
    CASE grant = "token" -> world.oauth2Config.enable_implicit_grant
      [] grant \in {"code", "authorization_code"} -> world.oauth2Config.enable_authorization_code
      [] grant = "client_credentials" -> world.oauth2Config.enable_client_credentials
      [] grant = "password" -> world.oauth2Config.enable_password_grant
      [] OTHER -> TRUE

\* C19: the gateway's authorize or token end point is called for a grant
\* only if the plugin's configuration enables the grant; a request for a
\* grant whose flag is off makes no such call, is answered without code or
\* token, and where it comes as far as the call it fails with
\* unauthorized_client: 403 as JSON on the token end point, the error
\* redirect to the client in the authorize flow.
C19_GatewayCalledOnlyForEnabledGrant ==
    /\ \A c \in GatewayCalls : FlagOf(c.grant)
    /\ (hist.last.route \in AuthorizeRoutes \cup {"token"} /\ ~FlagOf(LastGrant))
          => /\ GatewayCalls = {}
             /\ pending.kind = "none"
             /\ resp.key = NoKey
             /\ ~TokenIssued
    /\ resp.description = "The API is not configured for the grant"
          => /\ ~FlagOf(LastGrant)
             /\ resp.error = "unauthorized_client"
             /\ IF hist.last.route = "token"
                THEN resp.kind = "json" /\ resp.status = 403
                ELSE resp.kind = "redirect" /\ resp.status = 302 /\ resp.body = "error"

\* the trusted client posts the user's right name and password with its
\* right secret, the identity provider accepts them, and the plugin does
\* not enable the password grant: 403 unauthorized_client, no gateway call
C19_Witness ==
    /\ hist.last.route = "token"
    /\ LastTokenRequest.grant_type = "password"
    /\ LastTokenRequest.client_secret = SECRET
    /\ ~world.oauth2Config.enable_password_grant
    /\ CallsTo(calls, "idp.userpass") # {}
    /\ GatewayCalls = {}
    /\ resp.kind = "json" /\ resp.status = 403 /\ resp.error = "unauthorized_client"
    /\ resp.description = "The API is not configured for the grant"


\* ------------------------------------------------------------------------
\* Specification SpecForgot: the browser, logged in or not, asks for the
\* forgot-password page and posts addresses of users and of nobody, while
\* the portal answers the lookups and may delete the user
\* ------------------------------------------------------------------------

ForgotEmails ==
    {EMAIL, <<"nobody", "@", "example.org">>, <<"u1">>, <<"@", "example.org">>, <<>>}

InitForgot == InitServer({World(ApiScopes, FALSE, TRUE, FALSE, FALSE, Nil, <<>>)})

NextForgot ==
    \/ Authorize({Query(CID, "code", REDIRECT, Undefined, Nil)}, {AllUp})
    \/ Login({AllUp})
    \/ RegisterTokenOrCodeDone
    \/ ForgotPasswordGet
    \/ ForgotPasswordPost(ForgotEmails)
    \/ GetUserByEmailDone
    \/ DeleteUser

SpecForgot == InitForgot /\ [][NextForgot]_vars

\* status and page of a response, and whether it is held back
Seen(r) == [kind |-> r.kind, status |-> r.status, body |-> r.body, error |-> r.error,
            delay |-> r.delay]

\* this step handles a POST /forgotpassword with the session's CSRF token
ForgotPasswordPosted ==
    /\ hist'.last.route = "/forgotpassword"
    /\ hist'.last.matched
    /\ hist'.rendered # hist.rendered

\* C20: in every state, POST /forgotpassword with the session's CSRF token
\* is answered with the same status and page for every two addresses,
\* whether they belong to a user or not; the step that answers renders
\* forgot_password_post at once, creates no verification, and leaves the
\* lookup of a valid address in flight.
C20_ForgotPasswordAnswersAlike ==
    [][/\ \A csrf \in FormTokens :
             ~CsrfFails(session.csrfToken, csrf)
                => \A e1 \in ForgotEmails, e2 \in ForgotEmails :
                      Seen(ForgotPasswordPostWith(csrf, e1).resp)
                          = Seen(ForgotPasswordPostWith(csrf, e2).resp)
       /\ ForgotPasswordPosted
             => /\ Seen(resp') = [kind |-> "render", status |-> 200,
                                  body |-> "forgot_password_post", error |-> Nil, delay |-> 0]
                /\ portal'.verifications = portal.verifications
                /\ CallsTo(calls', "portal.write") = {}
                /\ emailValid(hist'.last.posted) => hist'.last.posted \in portal'.lookups]_vars

\* the user's address was posted with the page's token: the page is
\* answered while the lookup is in flight and no verification exists yet
C20_Witness ==
    /\ hist.last.route = "/forgotpassword"
    /\ hist.last.matched
    /\ hist.last.posted = EMAIL
    /\ portal.userExists
    /\ EMAIL \in portal.lookups
    /\ portal.verifications = {}
    /\ resp.kind = "render" /\ resp.status = 200 /\ resp.body = "forgot_password_post"


\* ------------------------------------------------------------------------
\* Specification SpecNamespace: the authorize flow of an API whose
\* registration pool requires namespaces, for a user with no, one or two
\* registrations in it
\* ------------------------------------------------------------------------

NamespaceWorlds ==
    {[World(ApiScopes, trusted, TRUE, FALSE, FALSE, POOL, <<>>) EXCEPT !.requiresNamespace = TRUE] :
        trusted \in BOOLEAN}

\* the user's registrations, and the namespaces the pool still knows
NamespacePortals ==
    {[NewPortal EXCEPT !.namespaces = items, !.poolNamespaces = known] :
        items \in {<<>>, <<"A">>, <<"A", "B">>}, known \in {{"A", "B"}, {"B"}}}
    \cup {[NewPortal EXCEPT !.lookup404 = TRUE, !.poolNamespaces = {"A", "B"}]}

NamespaceQueries ==
    {Query(CID, "code", REDIRECT, Undefined, Nil),
     Query(CID, "token", REDIRECT, <<"r">>, Nil)}

NamespaceEnvs == {AllUp, [AllUp EXCEPT !.portal = "err"]}

PostedNamespaces == {"A", "B", "C", Nil}

InitNamespace ==
    /\ sv = IdleScope
    /\ world \in NamespaceWorlds
    /\ session = NewSession
    /\ portal \in NamespacePortals
    /\ gateway = NewGateway
    /\ profileStore = NewProfileStore
    /\ pending = NoPending
    /\ resp = NoResponse
    /\ calls = {}
    /\ hist = NewHist
    /\ cache = ColdCache

NextNamespace ==
    \/ Authorize(NamespaceQueries, NamespaceEnvs)
    \/ Login(NamespaceEnvs)
    \/ RegisterTokenOrCodeDone
    \/ SelectNamespacePost(PostedNamespaces, NamespaceEnvs)
    \/ GrantPost(NamespaceEnvs)

SpecNamespace == InitNamespace /\ [][NextNamespace]_vars

\* the namespaces the select-namespace page offers to the user
OfferedNamespaces ==
    SelectSeq(portal.namespaces, LAMBDA ns : ns \in portal.poolNamespaces)

\* this step handles a POST /selectnamespace with the session's CSRF token
\* after a select-namespace page
NamespacePosted ==
    /\ hist'.last.route = "/selectnamespace"
    /\ hist'.last.matched
    /\ session.csrfToken # 0
    /\ session.authRequest.validNamespaces.defined

\* this step handles the login of the user for an AuthRequest without
\* namespace, or the authorize request of the user who is logged in, and
\* does not end in an error
RegistrationsLookedUp ==
    /\ \/ hist'.last.route = "login" /\ session.authRequest.namespace = Nil
       \/ hist'.last.route = "authorize" /\ session.authResponse.defined
    /\ session'.authResponse.defined
    /\ session'.authRequest.defined
    /\ resp'.status < 400 /\ resp'.body # "error"

\* C14: for a pool that requires namespaces and a user with several
\* registrations, an authorize request without namespace is answered by the
\* select-namespace page, which offers the namespaces of the registrations;
\* POST /selectnamespace takes a namespace only if that page offered it and
\* fails otherwise without calling the gateway; the call of the gateway's
\* authorize end point that the POST makes carries
\* sub=<user id>;namespace=<the namespace posted>, and so does the call made
\* after the consent page for the namespace the session's AuthRequest holds
\* since, which only an authorize request, a login or a selection changes.
C14_SelectedNamespaceInUserId ==
    [][/\ (RegistrationsLookedUp /\ Len(portal.namespaces) > 1)
             => /\ resp'.kind = "render" /\ resp'.body = "select_namespace"
                /\ session'.authRequest.validNamespaces
                       = [defined |-> TRUE, list |-> OfferedNamespaces]
                /\ session'.authRequest.namespace = Nil
                /\ CallsTo(calls', "gw.authorize") = {}
       /\ NamespacePosted
             => IF hist'.last.posted \in Range(session.authRequest.validNamespaces.list)
                THEN /\ session'.authRequest.namespace = hist'.last.posted
                     /\ resp'.status # 400 /\ resp'.status # 403
                ELSE /\ resp'.status = 400 /\ resp'.body = "error"
                     /\ session'.authRequest.namespace = Nil
                     /\ CallsTo(calls', "gw.authorize") = {}
                     /\ gateway' = gateway
                     /\ pending'.kind = "none"
       /\ ~session'.authRequest.validNamespaces.defined
             => \/ session'.authRequest.validNamespaces = session.authRequest.validNamespaces
                \/ hist'.last.route \in {"/selectnamespace", "authorize"}
       /\ session'.authRequest.namespace # session.authRequest.namespace
             => hist'.last.route \in {"authorize", "login", "/selectnamespace"}
       /\ \A c \in CallsTo(calls', "gw.authorize") :
             IF hist'.last.route = "/selectnamespace"
             THEN /\ hist'.last.posted \in Range(OfferedNamespaces)
                  /\ c.userid = <<"sub=", USER, ";namespace=", hist'.last.posted>>
             ELSE session.authRequest.namespace # Nil
                     => c.userid = <<"sub=", USER, ";namespace=",
                                     session.authRequest.namespace>>]_vars

\* the last request looked up the registrations of the logged-in user, who
\* has none, for an AuthRequest without namespace
NoRegistrationNoNamespace ==
    /\ world.requiresNamespace
    /\ portal.namespaces = <<>>
    /\ hist.last.route \in {"login", "authorize"}
    /\ session.authResponse.defined
    /\ session.authRequest.defined
    /\ session.authRequest.namespace = Nil

\* C30: for a pool that requires namespaces, an AuthRequest without
\* namespace and a user without registration in the pool (the portal
\* answers the lookup with an empty list or with 404), the flow fails,
\* after the login with 400 unless a collaborator failed (500), and neither
\* the registration form nor the select-namespace page is rendered.
C30_NoRegistrationNoNamespaceFails ==
    NoRegistrationNoNamespace
        => /\ resp.body = "error"
           /\ hist.last.route = "login" => resp.status \in {400, 500}
           /\ CallsTo(calls, "gw.authorize") = {}

\* the user with registrations in A and B was shown the page, posted B,
\* and the gateway was asked to authorize sub=u1;namespace=B
C14_Witness ==
    /\ world.requiresNamespace
    /\ portal.namespaces = <<"A", "B">>
    /\ hist.last.route = "/selectnamespace"
    /\ hist.last.matched
    /\ hist.last.posted = "B"
    /\ session.authRequest.namespace = "B"
    /\ \E c \in CallsTo(calls, "gw.authorize") :
           c.userid = <<"sub=", USER, ";namespace=", "B">>
    /\ resp.kind = "redirect" /\ resp.key # NoKey


\* ------------------------------------------------------------------------
\* Specification SpecSubject: the authorize flow of an API without
\* passthrough settings and without registration pool, for authorize
\* requests with every combination of response type, scope, prompt and
\* namespace
\* ------------------------------------------------------------------------

SubjectWorlds ==
    {World(ApiScopes, trusted, TRUE, FALSE, FALSE, Nil, <<>>) : trusted \in BOOLEAN}

SubjectQueries ==
    {WithNamespace(Query(CID, rt, REDIRECT, sc, pr), ns) :
        rt \in {"code", "token"}, sc \in {Undefined, <<"r">>}, pr \in {Nil, "none", "login"},
        ns \in {Nil, "A"}}

SubjectEnvs == {AllUp, [AllUp EXCEPT !.idp = "okprofile"]}

InitSubject == InitServer(SubjectWorlds)

NextSubject ==
    \/ Authorize(SubjectQueries, SubjectEnvs)
    \/ Login(SubjectEnvs)
    \/ RegisterTokenOrCodeDone
    \/ GrantPost(SubjectEnvs)

SpecSubject == InitSubject /\ [][NextSubject]_vars

\* C24: for an API without passthrough settings and without registration
\* pool, every call of the gateway's authorize end point carries
\* authenticated_userid sub=<id of the portal user>, whatever the query of
\* the authorize request held.
C24_SubjectIsPortalUser ==
    \A c \in CallsTo(calls, "gw.authorize") : c.userid = <<"sub=", USER>>


\* ------------------------------------------------------------------------
\* Specification SpecPassthrough: the authorize flow of an API with
\* passthroughScopeUrl, for every answer of the external scope service
\* ------------------------------------------------------------------------

PassthroughWorlds ==
    {World(ApiScopes, trusted, TRUE, ptUsers, TRUE, Nil, <<>>) :
        trusted \in BOOLEAN, ptUsers \in BOOLEAN}

PassthroughQueries ==
    {Query(CID, rt, REDIRECT, sc, Nil) : rt \in {"code", "token"}, sc \in {<<>>, <<"r">>}}

\* the JSON texts of the allow property of an answer: true, false, none,
\* and a string
AllowValues == {"true", "false", "undefined", "'no'"}

PassthroughEnvs ==
    {[AllUp EXCEPT !.ext = ExtAnswer("ok", allow, userid, << <<"s1">> >>)] :
        allow \in AllowValues, userid \in {<<>>, <<"ext:42">>}}
    \cup {[AllUp EXCEPT !.ext = ExtAnswer("err", "undefined", <<>>, <<>>)],
          [AllUp EXCEPT !.gw = "down"]}

InitPassthrough == InitServer(PassthroughWorlds)

NextPassthrough ==
    \/ Authorize(PassthroughQueries, PassthroughEnvs)
    \/ Login(PassthroughEnvs)
    \/ RegisterTokenOrCodeDone

SpecPassthrough == InitPassthrough /\ [][NextPassthrough]_vars

\* the answers the external scope service gave during the last request
ScopeServiceAnswers ==
    {c.answered : c \in {d \in CallsTo(calls, "ext.scope") : d.answered.kind = "ok"}}

\* C23: in the authorize flow of an API with passthroughScopeUrl, every call
\* of the gateway's authorize end point follows an answer allow=true of the
\* external scope service and carries that answer's authenticated_scope and
\* authenticated_userid; an answer whose allow is absent or not true ends
\* the request with 403, without gateway call and without code or token.
C23_GatewayOnlyAfterAllow ==
    /\ \A c \in CallsTo(calls, "gw.authorize") :
           \E a \in ScopeServiceAnswers :
               /\ a.allow = "true"
               /\ c.scope = a.authenticated_scope
               /\ c.userid = <<"sub=">> \o a.authenticated_userid
    /\ \A a \in ScopeServiceAnswers :
           a.allow # "true"
               => /\ resp.status = 403
                  /\ CallsTo(calls, "gw.authorize") = {}
                  /\ pending.kind = "none"
                  /\ resp.key = NoKey

\* C25: once the scope of an authorize request is validated and until the
\* AuthRequest is replaced, AuthRequest.scope lists only names of the API's
\* catalogue (untrusted subscription) or exactly the catalogue (trusted
\* subscription), also after the passthrough-scope step and after the
\* gateway call.
C25_ScopeWithinCatalogue ==
    session.authRequest.scopeKind = "list"
        => IF session.authRequest.trusted
           THEN session.authRequest.scope = world.apiScopes
           ELSE Range(session.authRequest.scope) \subseteq Range(world.apiScopes)

\* C26: whenever the session counts as logged in, its AuthResponse holds a
\* profile with a non-empty sub, also between the user reconciliation and
\* the end of the registration flow, and for passthrough APIs.
C26_LoggedInHasSub ==
    session.authResponse.defined
        => /\ session.authResponse.profile.defined
           /\ session.authResponse.profile.sub # <<>>


\* ------------------------------------------------------------------------
\* Specification SpecReconcile: logins and password grants for every way
\* the identity provider names the user (by the portal's id, by its own
\* id, not at all), on APIs with and without passthroughUsers and
\* registration pool, against a portal that has the user, has a user of
\* that e-mail address without the customId, or has no user yet
\* ------------------------------------------------------------------------

ReconcileWorlds ==
    {World(ApiScopes, trusted, TRUE, ptUsers, FALSE, pool, <<>>) :
        trusted \in BOOLEAN, ptUsers \in BOOLEAN, pool \in {Nil, POOL}}

ReconcilePortals ==
    {NewPortal,
     [NewPortal EXCEPT !.federated = FALSE],
     [NewPortal EXCEPT !.userExists = FALSE, !.federated = FALSE]}

ReconcileQueries ==
    {Query(CID, "code", REDIRECT, Undefined, Nil)}
    \cup {Query(CID, "token", REDIRECT, Undefined, pr) : pr \in {Nil, "none"}}

ReconcileEnvs ==
    {[AllUp EXCEPT !.idp = idp] : idp \in {"ok", "okprofile", "custom", "anonymous", "err"}}
    \cup {[AllUp EXCEPT !.gw = "down"]}

ReconcileRequests ==
    {TokenRequest("password", CID, SECRET, NoKey, Undefined, USER, PASSWORD, NoKey)}

InitReconcile ==
    /\ sv = IdleScope
    /\ world \in ReconcileWorlds
    /\ session = NewSession
    /\ portal \in ReconcilePortals
    /\ gateway = NewGateway
    /\ profileStore = NewProfileStore
    /\ pending = NoPending
    /\ resp = NoResponse
    /\ calls = {}
    /\ hist = NewHist
    /\ cache = ColdCache

NextReconcile ==
    \/ Authorize(ReconcileQueries, ReconcileEnvs)
    \/ Login(ReconcileEnvs)
    \/ RegisterTokenOrCodeDone
    \/ RegisterPost(ReconcileEnvs)
    \/ PostToken(ReconcileRequests, ReconcileEnvs)

SpecReconcile == InitReconcile /\ [][NextReconcile]_vars

\* the calls of the last request that ask the gateway for a code or token
\* of an end user: by the authorize flow, or by the password grant
EndUserCalls ==
    CallsTo(calls, "gw.authorize") \cup {c \in CallsTo(calls, "gw.token") : c.grant = "password"}

GrantWorlds == {World(ApiScopes, FALSE, TRUE, FALSE, FALSE, Nil, <<>>)}

GrantQueries == {Query(CID, "code", REDIRECT, sc, Nil) : sc \in AuthorizeScopes}

GrantEnvs == {AllUp, [AllUp EXCEPT !.gw = "down"], [AllUp EXCEPT !.portal = "err"]}

\* the user has granted the application nothing yet, or scope r
GrantPortals == {NewPortal, [NewPortal EXCEPT !.grants = << <<"r">> >>]}

\* the portal's DELETE /grants/<user>/applications/<app>/apis/<api>, asked
\* for from elsewhere (the portal's own pages, another session): the grants
\* are gone, the session stays as it is
RevokeGrants ==
    /\ portal.grants # <<>>
    /\ portal' = [portal EXCEPT !.grants = <<>>]
    /\ UNCHANGED <<sv, cache, world, session, gateway, profileStore, pending, resp, calls, hist>>

InitGrant ==
    /\ sv = IdleScope
    /\ world \in GrantWorlds
    /\ session = NewSession
    /\ portal \in GrantPortals
    /\ gateway = NewGateway
    /\ profileStore = NewProfileStore
    /\ pending = NoPending
    /\ resp = NoResponse
    /\ calls = {}
    /\ hist = NewHist
    /\ cache = ColdCache

NextGrant ==
    \/ Authorize(GrantQueries, GrantEnvs)
    \/ Login(GrantEnvs)
    \/ RegisterTokenOrCodeDone
    \/ GrantPost(GrantEnvs)
    \/ GrantsPost(GrantEnvs)
    \/ RevokeGrants

SpecGrant == InitGrant /\ [][NextGrant]_vars

\* the grant data of the session is that of its AuthRequest and of the
\* grants the portal holds: the consent page was rendered for this
\* AuthRequest, and the stored grants are those the page was made from
GrantDataCurrent ==
    /\ session.authRequest.scopeKind = "list"
    /\ Range(session.authRequest.scope) \subseteq
           Range(session.grantData.existingGrants) \cup Range(session.grantData.missingGrants)
    /\ portal.grants = session.grantData.existingGrants

RetryWorlds == {World(ApiScopes, FALSE, TRUE, TRUE, TRUE, Nil, <<>>)}

RetryQueries == {Query(CID, "code", REDIRECT, <<"r">>, Nil)}

RetryEnvs == {AllUp}

\* what one POST to the scope service comes to: a 2xx answer that allows or
\* does not, no answer (network error, or none within the timeout of 5000
\* ms), an answer with status 503
ScopeAttempts ==
    {ExtAnswer("ok", "true", <<"ext:42">>, << <<"s1">> >>),
     ExtAnswer("ok", "false", <<>>, <<>>),
     ExtAnswer("err", "undefined", <<>>, <<>>),
     ExtAnswer("503", "undefined", <<>>, <<>>)}

\* the handler waiting for async.retry: attempts made so far, and the time
\* spent waiting between them
ScopePending(route, query, env) ==
    [kind |-> "scope", attempts |-> 0, waited |-> 0, route |-> route, query |-> query,
     env |-> env]

\* a retry that starts over when it should give up
resolvePassthroughScopeForever(attempts, waited, answer) ==
    IF answer.kind = "ok"
    THEN [done |-> TRUE, attempts |-> attempts + 1, waited |-> waited, result |-> answer]
    ELSE IF attempts + 1 >= EXTERNAL_URL_RETRIES
    THEN [done |-> FALSE, attempts |-> 0, waited |-> 0, result |-> answer]
    ELSE [done |-> FALSE, attempts |-> attempts + 1,
          waited |-> waited + EXTERNAL_URL_INTERVAL, result |-> answer]

\* resolvePassthroughScope: async.retry with times EXTERNAL_URL_RETRIES and
\* interval EXTERNAL_URL_INTERVAL, after one more attempt came to answer:
\* a 2xx answer ends the call with its body, the last attempt ends it with
\* its error, any other is followed by the next after the interval
resolvePassthroughScope(attempts, waited, answer) ==
    IF answer.kind = "ok" \/ attempts + 1 >= EXTERNAL_URL_RETRIES
    THEN [done |-> TRUE, attempts |-> attempts + 1, waited |-> waited, result |-> answer]
    ELSE [done |-> FALSE, attempts |-> attempts + 1,
          waited |-> waited + EXTERNAL_URL_INTERVAL, result |-> answer]

\* the request's handler, from its start to its end, when the scope service
\* call comes to what env says
RetryHandler(route, query, env) ==
    IF route = "authorize" THEN AuthorizeWith(query, env) ELSE LoginWith(env)

\* a request comes in: it runs to its end, or up to the call of the scope
\* service
RetryRequest(route, query, env) ==
    LET b == RetryHandler(route, query, env)
    IN  IF CallsTo(b.calls, "ext.scope") = {}
        THEN Leave(b, route, NoForm)
        ELSE /\ pending' = ScopePending(route, query, env)
             /\ UNCHANGED <<sv, cache, world, session, portal, gateway, profileStore, resp, calls,
                            hist>>

AuthorizeRetry ==
    /\ pending.kind = "none"
    /\ gateway.next <= MaxMint
    /\ CanRender
    /\ \E q \in RetryQueries, env \in RetryEnvs : RetryRequest("authorize", q, env)

LoginRetry ==
    /\ pending.kind = "none"
    /\ gateway.next <= MaxMint
    /\ CanRender
    /\ session.authRequest.defined
    /\ \E env \in RetryEnvs : RetryRequest("login", NoQuery, env)

\* one attempt of the call comes to an end
ScopeAttempt ==
    /\ pending.kind = "scope"
    /\ \E answer \in ScopeAttempts :
          LET r == resolvePassthroughScope(pending.attempts, pending.waited, answer)
          IN  IF r.done
              THEN Leave(RetryHandler(pending.route, pending.query,
                                      [pending.env EXCEPT !.ext = r.result]),
                         pending.route, NoForm)
              ELSE /\ pending' = [pending EXCEPT !.attempts = r.attempts, !.waited = r.waited]
                   /\ UNCHANGED <<sv, cache, world, session, portal, gateway, profileStore, resp,
                                  calls, hist>>

InitRetry == InitServer(RetryWorlds)

NextRetry ==
    \/ AuthorizeRetry
    \/ LoginRetry
    \/ ScopeAttempt
    \/ RegisterTokenOrCodeDone

\* every attempt ends: the request has a timeout of 5000 ms, and the timer
\* of the interval fires
SpecRetry == InitRetry /\ [][NextRetry]_vars /\ WF_vars(ScopeAttempt)

\* the step that ends the call of the scope service
ScopeCallEnds == pending.kind = "scope" /\ pending'.kind # "scope"

\* the call ends with the error of its last attempt
ScopeCallFails ==
    /\ ScopeCallEnds
    /\ \A c \in CallsTo(calls', "ext.scope") : c.answered.kind # "ok"

\* C22: the call of the passthrough scope service always ends: it is made
\* again after every attempt without 2xx answer, EXTERNAL_URL_RETRIES times
\* at most and EXTERNAL_URL_INTERVAL ms apart, it ends with the first 2xx
\* answer and hands on that body, and when the last attempt fails the
\* request is answered with 500 and no code or token is minted.
C22_ScopeCallEndsOr500 ==
    /\ (pending.kind = "scope") ~> (pending.kind # "scope")
    /\ [](pending.kind = "scope"
             => /\ pending.attempts < EXTERNAL_URL_RETRIES
                /\ pending.waited = pending.attempts * EXTERNAL_URL_INTERVAL)
    /\ [][ScopeCallEnds
             => \A c \in CallsTo(calls', "ext.scope") :
                    \/ c.answered.kind = "ok"
                    \/ pending.attempts + 1 = EXTERNAL_URL_RETRIES]_vars
    /\ [][ScopeCallFails
             => /\ resp'.status = 500
                /\ gateway' = gateway
                /\ CallsTo(calls', "gw.authorize") = {}
                /\ pending'.kind = "none"
                /\ resp'.key = NoKey]_vars

\* C22 (amended): as above, but the request is answered with the status of
\* the last attempt's answer, and with 500 when the attempt got no answer.
C22_ScopeCallEndsOrFails ==
    /\ (pending.kind = "scope") ~> (pending.kind # "scope")
    /\ [](pending.kind = "scope"
             => /\ pending.attempts < EXTERNAL_URL_RETRIES
                /\ pending.waited = pending.attempts * EXTERNAL_URL_INTERVAL)
    /\ [][ScopeCallEnds
             => \A c \in CallsTo(calls', "ext.scope") :
                    \/ c.answered.kind = "ok"
                    \/ pending.attempts + 1 = EXTERNAL_URL_RETRIES]_vars
    /\ [][ScopeCallFails
             => /\ \A c \in CallsTo(calls', "ext.scope") :
                       resp'.status = IF c.answered.kind = "503" THEN 503 ELSE 500
                /\ gateway' = gateway
                /\ CallsTo(calls', "gw.authorize") = {}
                /\ pending'.kind = "none"
                /\ resp'.key = NoKey]_vars

\* all attempts but one have failed, each followed by the interval, and the
\* handler waits for the last one
C22_Witness ==
    /\ pending.kind = "scope"
    /\ pending.route = "login"
    /\ pending.attempts = EXTERNAL_URL_RETRIES - 1
    /\ pending.waited = (EXTERNAL_URL_RETRIES - 1) * EXTERNAL_URL_INTERVAL

\* ------------------------------------------------------------------------
\* Specification SpecCache: calls of the four getters, for two API ids,
\* interleaved in every order; a call that misses the cache waits for its
\* fetch while other calls start and end
\* ------------------------------------------------------------------------

\* a getter is called: a hit answers from the cache at once, a miss sends
\* the fetch and leaves the call waiting for its callback
GetterCalled(r, kind, apiId) ==
    /\ cache.reqs[r].phase = "idle"
    /\ LET map == cache.store[kind]
           started == [NoRequest EXCEPT !.kind = kind, !.api = apiId,
                                        !.afterFill = (<<kind, apiId>> \in cache.filled)]
       IN  cache' = [cache EXCEPT !.reqs[r] =
                        IF cacheHit(map, apiId)
                        THEN [started EXCEPT !.phase = "done", !.value = map[apiId]]
                        ELSE [started EXCEPT !.phase = "fetching", !.fetched = TRUE]]
    /\ UNCHANGED <<sv, world, session, portal, gateway, profileStore, pending, resp, calls, hist>>

\* the fetch of a waiting call is answered: its callback runs
FetchAnswered(r, answer) ==
    /\ cache.reqs[r].phase = "fetching"
    /\ answer \in FetchAnswers(cache.reqs[r].kind)
    /\ LET kind == cache.reqs[r].kind
           apiId == cache.reqs[r].api
           got == fetchCallback(kind, cache.store[kind], apiId, answer)
       IN  cache' = [cache EXCEPT !.store[kind] = got.map,
                                  !.reqs[r] = [@ EXCEPT !.phase = "done", !.err = got.err,
                                                        !.value = got.value],
                                  !.filled = IF got.err THEN @ ELSE @ \cup {<<kind, apiId>>}]
    /\ UNCHANGED <<sv, world, session, portal, gateway, profileStore, pending, resp, calls, hist>>

InitCache == InitServer({World(ApiScopes, FALSE, TRUE, FALSE, FALSE, Nil, <<>>)})

NextCache ==
    \/ \E r \in Requests, kind \in CacheKinds, apiId \in ApiIds : GetterCalled(r, kind, apiId)
    \/ \E r \in Requests, answer \in {"ok", "err", "noplugin", "nokey", "nosettings", "noscopes"} :
           FetchAnswered(r, answer)

SpecCache == InitCache /\ [][NextCache]_vars

\* the value is all of what the upstream holds for this cache and API id
FullyFetched(value, kind, apiId) ==
    /\ value.defined
    /\ value.kind = kind
    /\ value.api = apiId
    /\ value.body \in {"config", "descriptor", "scopes", "none"}

\* C21: the per-API caches are insert-only: once a fill for an API id has
\* completed, the entry is there for good, no call that starts afterwards
\* sends a fetch for it, and every call that ends without an error,
\* concurrent first-time calls included, ends with a fully fetched value
C21_CachesInsertOnly ==
    /\ \A k \in cache.filled : FullyFetched(cache.store[k[1]][k[2]], k[1], k[2])
    /\ \A r \in Requests : cache.reqs[r].afterFill => ~cache.reqs[r].fetched
    /\ \A r \in Requests :
           (cache.reqs[r].phase = "done" /\ ~cache.reqs[r].err)
               => FullyFetched(cache.reqs[r].value, cache.reqs[r].kind, cache.reqs[r].api)

\* two first-time calls for the same API id both fetched and both ended
\* with the value, and a call that started after the fill was answered
\* from the cache
C21_Witness ==
    /\ cache.reqs[1].phase = "done" /\ cache.reqs[1].fetched /\ ~cache.reqs[1].err
    /\ cache.reqs[2].phase = "done" /\ cache.reqs[2].fetched /\ ~cache.reqs[2].err
    /\ cache.reqs[3].phase = "done" /\ cache.reqs[3].afterFill /\ ~cache.reqs[3].fetched
    /\ cache.reqs[1].kind = "kongApi" /\ cache.reqs[1].api = "api1"
    /\ cache.reqs[2].kind = "kongApi" /\ cache.reqs[2].api = "api1"
    /\ cache.reqs[3].kind = "kongApi" /\ cache.reqs[3].api = "api1"

\* ------------------------------------------------------------------------
\* Specification SpecRedirect: authorize requests with the registered
\* redirect_uri, with and without a trailing slash, and with somebody
\* else's, the plain login with a path of this application and with a URI
\* elsewhere, logins and consent forms
\* ------------------------------------------------------------------------

\* a path of this application, with its base path
INTERNAL == "/auth/local/grants"

RedirectWorlds ==
    {World(ApiScopes, trusted, TRUE, FALSE, FALSE, Nil, <<>>) : trusted \in BOOLEAN}

RedirectQueries ==
    {Query(CID, "code", uri, sc, Nil) :
        uri \in {REDIRECT, REDIRECT_SLASH, ELSEWHERE}, sc \in {Undefined, <<"r">>}}

PlainRedirects == {Nil, INTERNAL, ELSEWHERE}

RedirectEnvs == {AllUp, [AllUp EXCEPT !.gw = "down"], [AllUp EXCEPT !.portal = "err"]}

InitRedirect == InitServer(RedirectWorlds)

NextRedirect ==
    \/ Authorize(RedirectQueries, RedirectEnvs)
    \/ PlainLogin(PlainRedirects, RedirectEnvs)
    \/ Login(RedirectEnvs)
    \/ RegisterTokenOrCodeDone
    \/ GrantPost(RedirectEnvs)

SpecRedirect == InitRedirect /\ [][NextRedirect]_vars

\* the last response is a redirect of the plain login
PlainRedirect == resp.kind = "redirect" /\ resp.body = "plain"

\* C31: every redirect of the plain login, the one at once and the one after
\* the identity provider's login, goes to a redirect_uri inside this
\* application, and is made only in a session that is logged in
C31_PlainLoginRedirectsInside ==
    PlainRedirect => (resp.location = INTERNAL /\ session.authResponse.defined)

\* the last response is a 302 of the authorize flow with a code, a token or
\* an error
AuthorizeRedirect ==
    /\ hist.last.route \in AuthorizeRoutes
    /\ resp.kind = "redirect"
    /\ resp.body \in {"code", "error"}

\* C32: every 302 of the authorize flow with a code, a token or an error
\* goes to the redirect URI registered for the application, give or take
\* one trailing slash
C32_RedirectsToRegisteredUri ==
    AuthorizeRedirect => stripTrailingSlash(resp.location) = stripTrailingSlash(REDIRECT)

\* ------------------------------------------------------------------------
\* Specification SpecTabs: one browser session with several pages open.
\* Every login page and consent page the server sent stays with the browser
\* until its form is posted; authorize requests and plain logins may come in
\* between, from other tabs of the same browser.
\* ------------------------------------------------------------------------

OTHER_CLIENT == "other"

TabWorlds == {World(ApiScopes, trusted, TRUE, FALSE, FALSE, Nil, <<>>) : trusted \in BOOLEAN}

TabQueries ==
    {Query(CID, "code", REDIRECT, sc, Nil) : sc \in {Undefined, <<"r">>}}
    \cup {Query(CID, "token", REDIRECT, <<"r">>, Nil),
          Query(OTHER_CLIENT, "code", REDIRECT, <<"r">>, Nil)}

TabEnvs == {AllUp, [AllUp EXCEPT !.portal = "err"]}

\* the page bundle b answers with, if it is a login page or a consent page
PageOf(b) ==
    IF b.resp.kind = "render" /\ b.resp.body \in {"login", "grant_scopes"}
    THEN {[view |-> b.resp.body, token |-> b.resp.token, request |-> b.session.authRequest,
           listed |-> IF b.resp.body = "grant_scopes"
                      THEN b.session.grantData.missingGrants ELSE <<>>]}
    ELSE {}

AuthorizeTab ==
    /\ pending.kind = "none"
    /\ gateway.next <= MaxMint
    /\ CanRender
    /\ \E q \in TabQueries, env \in TabEnvs :
          LET b == AuthorizeWith(q, env)
          IN  LeaveTracked(b, "authorize", NoForm, hist.pages \cup PageOf(b), NoPage)

PlainLoginTab ==
    /\ pending.kind = "none"
    /\ \E env \in TabEnvs :
          LET b == PlainLoginWith(INTERNAL, env)
          IN  LeaveTracked(b, "/login", NoForm, hist.pages \cup PageOf(b), NoPage)

\* the user logs in on one of the login pages
LoginTab ==
    /\ pending.kind = "none"
    /\ gateway.next <= MaxMint
    /\ CanRender
    /\ session.authRequest.defined
    /\ \E p \in hist.pages, env \in TabEnvs :
          /\ p.view = "login"
          /\ LET b == LoginWith(env)
             IN  LeaveTracked(b, "login", NoForm, (hist.pages \ {p}) \cup PageOf(b), p)

\* the user answers one of the consent pages
GrantPostTab ==
    /\ pending.kind = "none"
    /\ gateway.next <= MaxMint
    /\ CanRender
    /\ \E p \in hist.pages, action \in {"allow", "deny"}, env \in TabEnvs :
          /\ p.view = "grant_scopes"
          /\ LET b == GrantPostWith(p.token, action, env)
                 ok == ~CsrfFails(session.csrfToken, p.token)
             IN  LeaveTracked(b, "/grant",
                              Posting(Form("csrf", p.token, ok, ok), IF ok THEN action ELSE Nil),
                              (hist.pages \ {p}) \cup PageOf(b), p)

InitTabs == InitServer(TabWorlds)

NextTabs ==
    \/ AuthorizeTab
    \/ PlainLoginTab
    \/ LoginTab
    \/ GrantPostTab
    \/ RegisterTokenOrCodeDone

SpecTabs == InitTabs /\ [][NextTabs]_vars

\* the last request was the login on a page, and it went to the gateway's
\* authorize end point
LoginMinted ==
    /\ hist.last.route = "login"
    /\ hist.submitted.view = "login"
    /\ CallsTo(calls, "gw.authorize") # {}

\* C33: when a login completes, the code or token is asked of the gateway
\* for the client, the API, the response type and the scope of the authorize
\* request that the login page was sent for, whatever came in between
C33_MintedForRequestOfLogin ==
    LoginMinted =>
        /\ session.authRequest.client_id = hist.submitted.request.client_id
        /\ session.authRequest.api_id = hist.submitted.request.api_id
        /\ \A c \in CallsTo(calls, "gw.authorize") :
              /\ c.grant = hist.submitted.request.response_type
              /\ c.asked = hist.submitted.request.scope

\* the last request was the allow of a consent page, and it wrote a grant
GrantWritten ==
    /\ hist.last.route = "/grant"
    /\ hist.submitted.view = "grant_scopes"
    /\ CallsTo(calls, "portal.write") # {}

\* C34: every grant record POST /grant writes is for the application and
\* the API of the authorize request the consent page was sent for, and adds
\* only scopes that page listed
C34_GrantForRequestOfPage ==
    [][GrantWritten'
          => /\ \A c \in CallsTo(calls', "portal.write") :
                   c.target = <<hist'.submitted.request.app_id, hist'.submitted.request.api_id>>
             /\ Range(portal'.grants) \ Range(portal.grants)
                    \subseteq Range(hist'.submitted.listed)]_vars

\* ------------------------------------------------------------------------
\* Specification SpecRefreshCheck: refresh_token grants on an API with
\* portal users and on an API with passthrough users and scope, with every
\* decision of the identity provider's checkRefreshToken and every answer
\* of the scope service
\* ------------------------------------------------------------------------

RefreshCheckWorlds ==
    {World(ApiScopes, TRUE, TRUE, pt, pt, Nil, <<>>) : pt \in BOOLEAN}

RefreshCheckEnvs ==
    {[AllUp EXCEPT !.idp = idp] : idp \in {"ok", "deny", "nodecision", "err"}}
    \cup {[AllUp EXCEPT !.ext = ExtAnswer("ok", allow, <<"ext:7">>, << <<"s2">> >>)] :
             allow \in {"true", "false", "undefined"}}

RefreshCheckRequests(h) ==
    {TokenRequest("password", CID, SECRET, NoKey, Undefined, USER, PASSWORD, NoKey)}
    \cup {TokenRequest("refresh_token", CID, SECRET, NoKey, Undefined, Nil, Nil, k) :
             k \in KeysOf(h, "rt")}

InitRefreshCheck == InitServer(RefreshCheckWorlds)

NextRefreshCheck ==
    \/ PostToken(RefreshCheckRequests(hist), RefreshCheckEnvs)
    \/ RegisterTokenOrCodeDone
    \/ Authorize({Query(CID, "code", REDIRECT, Undefined, Nil)}, {AllUp})
    \/ Login({AllUp})

SpecRefreshCheck == InitRefreshCheck /\ [][NextRefreshCheck]_vars

\* the last request went to the gateway's token end point, or a token is on
\* its way to the client
RefreshWentOn ==
    \/ CallsTo(calls, "gw.token") # {}
    \/ pending.kind = "token"
    \/ TokenIssued

\* C35: a refresh_token grant on an API with portal users and without
\* scope URL calls the gateway's token end point only if checkRefreshToken
\* decided allowRefresh = true; allowRefresh = false ends the request
\* without a new token
C35_RefreshOnlyIfIdpAllows ==
    (RefreshPosted /\ ~world.passthroughUsers /\ ~world.passthroughScopeUrl)
        => \A c \in CallsTo(calls, "idp.refresh") :
               c.answered.allow # "true" => ~RefreshWentOn

\* C36: a refresh_token grant on an API with passthrough users and scope
\* URL mints only if the scope service answered allow = true; an answer
\* whose allow is absent or false fails the request, and the gateway is
\* not called
C36_PassthroughRefreshOnlyIfAllowed ==
    (RefreshPosted /\ world.passthroughUsers /\ world.passthroughScopeUrl)
        => \A c \in CallsTo(calls, "ext.scope") :
               c.answered.allow # "true" => (~RefreshWentOn /\ resp.status >= 400)

\* ------------------------------------------------------------------------
\* Specification SpecMethods: APIs that do and do not list the auth method
\* ------------------------------------------------------------------------

MethodLists ==
    {[defined |-> TRUE, list |-> {AUTH_METHOD}],
     [defined |-> TRUE, list |-> {AUTH_METHOD, OTHER_METHOD}],
     [defined |-> TRUE, list |-> {OTHER_METHOD}],
     [defined |-> TRUE, list |-> {}],
     [defined |-> FALSE, list |-> {}]}

MethodWorlds ==
    {[World(ApiScopes, trusted, TRUE, pt, pt, Nil, <<>>) EXCEPT !.authMethods = m] :
        trusted \in BOOLEAN, pt \in BOOLEAN, m \in MethodLists}

\* a gateway that holds a token with a refresh token, issued earlier (through
\* an auth method the API lists)
EarlierGateway ==
    [codes |-> {},
     tokens |-> {[n |-> 1, refresh |-> TRUE, userid |-> <<"sub=", USER>>, scope |-> <<>>]},
     next |-> 2]

MethodQueries ==
    {Query(CID, rt, REDIRECT, sc, Nil) : rt \in {"code", "token"}, sc \in {Undefined, <<"r">>}}

MethodRequests(h) ==
    {TokenRequest("client_credentials", CID, SECRET, NoKey, Undefined, Nil, Nil, NoKey),
     TokenRequest("password", CID, SECRET, NoKey, Undefined, USER, PASSWORD, NoKey),
     TokenRequest("authorization_code", CID, SECRET, CodeKey(1), Undefined, Nil, Nil, NoKey),
     TokenRequest("refresh_token", CID, SECRET, NoKey, Undefined, Nil, Nil, RefreshKey(1))}
    \cup {TokenRequest("authorization_code", CID, SECRET, k, Undefined, Nil, Nil, NoKey) :
             k \in KeysOf(h, "code")}
    \cup {TokenRequest("refresh_token", CID, SECRET, NoKey, Undefined, Nil, Nil, k) :
             k \in KeysOf(h, "rt")}

InitMethods ==
    /\ sv = IdleScope
    /\ world \in MethodWorlds
    /\ session = NewSession
    /\ portal = NewPortal
    /\ gateway \in {NewGateway, EarlierGateway}
    /\ profileStore = NewProfileStore
    /\ pending = NoPending
    /\ resp = NoResponse
    /\ calls = {}
    /\ hist = NewHist
    /\ cache = ColdCache

NextMethods ==
    \/ Authorize(MethodQueries, {AllUp})
    \/ Login({AllUp})
    \/ GrantPost({AllUp})
    \/ PostToken(MethodRequests(hist), {AllUp})
    \/ RegisterTokenOrCodeDone

SpecMethods == InitMethods /\ [][NextMethods]_vars

\* the API's descriptor lists the auth method of this router
MethodListed == world.authMethods.defined /\ AUTH_METHOD \in world.authMethods.list

\* the last request was answered by the adapter's refusal of the auth method
MethodRefused ==
    /\ resp.status = 500
    /\ ~MethodListed
    /\ resp.error \in {"unauthorized_client", "server_error"}

\* C37: on an API whose authMethods does not list the request's auth
\* method, no request reaches the gateway's authorize or token end point,
\* whatever the grant or response type; nothing is minted and no code or
\* token is handed out
C37_UnlistedMethodNeverReachesGateway ==
    ~MethodListed =>
        /\ CallsTo(calls, "gw.authorize") = {}
        /\ CallsTo(calls, "gw.token") = {}
        /\ gateway \in {NewGateway, EarlierGateway}
        /\ hist.handed = {}
        /\ pending.kind = "none"

\* a refresh_token grant with a live refresh token was refused for its auth
\* method
C37_Witness ==
    /\ MethodRefused
    /\ RefreshPosted
    /\ gateway = EarlierGateway
    /\ resp.error = "unauthorized_client"

\* ------------------------------------------------------------------------
\* Specification SpecClient: the client_secret rules of the token end point
\* ------------------------------------------------------------------------

InitClient == InitServer(TokenWorlds)

NextClient ==
    \/ PostToken(TokenRequests(hist), {AllUp})
    \/ RegisterTokenOrCodeDone
    \/ Authorize({Query(CID, "code", REDIRECT, Undefined, Nil)}, {AllUp})
    \/ Login({AllUp})

SpecClient == InitClient /\ [][NextClient]_vars

\* the last request was a POST to the token end point with this grant type
ClientPosted(grants) ==
    hist.last.route = "token" /\ LastTokenRequest.grant_type \in grants

\* the last request ended without a token and without a call of the
\* gateway's token end point
ClientRefused ==
    /\ resp.status >= 400
    /\ ~TokenIssued
    /\ pending.kind = "none"
    /\ CallsTo(calls, "gw.token") = {}

\* the last request passes every check that comes before the adapter's
\* validateTokenClientCredentials: the parameters of its grant type are
\* there, the client id is the subscription's, the scope is one the
\* subscription may ask for, and for the password grant the subscription
\* is trusted, the confidential application's secret is there and right,
\* the user name and password are right and the user is registered where
\* the API has a pool; for the refresh_token grant the refresh token is
\* live
ReachesClientCheck ==
    LET tr == LastTokenRequest
        scopeOk == validateApiScopes(FetchScopes(world, AllUp), tr.scope, world.trusted).err = NoError
    IN  /\ validateTokenRequest(tr) = NoError
        /\ tr.client_id = CID
        /\ tr.grant_type = "client_credentials" => scopeOk
        /\ tr.grant_type = "password" =>
               /\ world.trusted /\ scopeOk
               /\ world.confidential => tr.client_secret = SECRET
               /\ ~idpRejectsUserPass(tr, AllUp)
               /\ world.registrationPool # Nil => portal.registered
        /\ tr.grant_type = "refresh_token" =>
               GwTokenOfRefresh(gateway, tr.refresh_token) # {}

Answered403 == resp.status = 403 /\ resp.error = "unauthorized_client"

\* the client_secret rule of its grant type is broken by the last request
SecretRuleBroken ==
    LET tr == LastTokenRequest
    IN  /\ ClientPosted({"password", "refresh_token"})
        /\ \/ ~world.confidential /\ tr.client_secret # Nil
           \/ world.confidential /\ tr.client_secret = Nil

\* C38 as stated: an application that is not confidential is answered 403
\* unauthorized_client, before the gateway is called, on every
\* client_credentials and authorization_code grant, and a password or
\* refresh_token grant whose client_secret is there for a non-confidential
\* application or missing for a confidential one is answered 403
C38_BrokenSecretRuleIs403 ==
    /\ (ClientPosted({"client_credentials", "authorization_code"}) /\ ~world.confidential)
           => (ClientRefused /\ Answered403)
    /\ SecretRuleBroken => (ClientRefused /\ resp.status = 403)

\* C38, amended: an application that is not confidential never gets a token
\* through client_credentials or authorization_code, and a password or
\* refresh_token grant that breaks the client_secret rule never gets one
\* either; the gateway is not called. The answer is 403 unauthorized_client
\* when the request gets as far as the adapter's check, except that the
\* password grant of a confidential application without client_secret is
\* answered 401 invalid_request by the router's own check; a request that
\* fails an earlier check is answered with that check's error
C38_BrokenSecretRuleRefused ==
    /\ (ClientPosted({"client_credentials", "authorization_code"}) /\ ~world.confidential)
           => /\ ClientRefused
              /\ ReachesClientCheck => Answered403
    /\ SecretRuleBroken
           => /\ ClientRefused
              /\ (ReachesClientCheck /\ ~world.confidential) => Answered403
              /\ (ReachesClientCheck /\ LastTokenRequest.grant_type = "refresh_token")
                     => Answered403
              /\ ( /\ world.confidential /\ LastTokenRequest.grant_type = "password"
                   /\ validateTokenRequest(LastTokenRequest) = NoError
                   /\ LastTokenRequest.client_id = CID )
                     => (resp.status = 401 /\ resp.error = "invalid_request")

\* a non-confidential application exchanged a live code and was answered 403
C38_Witness ==
    /\ ClientPosted({"authorization_code"})
    /\ ~world.confidential
    /\ \E c \in gateway.codes : CodeKey(c.n) = LastTokenRequest.code
    /\ Answered403
    /\ ClientRefused

\* ------------------------------------------------------------------------
\* Specification SpecVerify: POST /verify and the DELETE it does not wait for
\* ------------------------------------------------------------------------

MaxVerifyRender == 3

VerifyTokens == 0..MaxVerifyRender

VerifyIds == {VERIFICATION, RESET, "unknown"}

\* the type the portal has stored with a verification
verificationType(id) == IF id = RESET THEN "lostpassword" ELSE "email"

\* GET /verify/:verificationId (createVerifyHandler)
VerifyGetWith(id, env) ==
    IF env.portal # "ok" THEN Fail(Start, failError(500, upstreamError(0)), FALSE)
    ELSE IF id \notin portal.verifications
    THEN Fail(Start, failMessage(404, "The given verification ID is not valid."), TRUE)
    ELSE IF verificationType(id) = "email" THEN Render(Start, "verify_email")
    ELSE Render(Start, "verify_password_reset")

VerifyGet(envs) ==
    /\ pending.kind = "none"
    /\ hist.rendered < MaxVerifyRender
    /\ \E id \in VerifyIds, env \in envs :
          Leave(VerifyGetWith(id, env), "/verify/:verificationId", Posting(NoForm, id))

\* POST /verify (createVerifyPostHandler): the user is patched, the DELETE of
\* the verification is sent and the page is rendered without waiting for it
VerifyPostUnawaitedWith(csrf, id, type, passwordsOk, env) ==
    LET b == getAndDeleteCsrfToken(Start)
        patched == [b EXCEPT !.portal.validated = IF type = "email" THEN TRUE ELSE @,
                             !.portal.patches = Append(@, id),
                             !.portal.deleting = @ \cup {id},
                             !.calls = {PortalWrite("users"), PortalWrite("verifications")}]
    IN  IF CsrfFails(session.csrfToken, csrf) THEN CsrfRejected(b)
        ELSE IF env.portal = "err" THEN Fail(b, failError(500, upstreamError(0)), FALSE)
        ELSE IF id \notin portal.verifications
        THEN Fail(b, failMessage(404, "The given verification ID is not valid."), TRUE)
        ELSE IF type # verificationType(id)
        THEN Fail(b, failMessage(500, "Verification information found, does not match"), FALSE)
        ELSE IF type = "lostpassword" /\ ~passwordsOk
        THEN Fail(b, failMessage(400, "Invalid passwords/passwords do not match."), FALSE)
        ELSE IF env.portal = "patch fails"
        THEN Fail(b, failError(500, upstreamError(0)), TRUE)
        ELSE IF type = "email" THEN Render(patched, "verify_email_post")
        ELSE Render(patched, "verify_password_reset_post")

VerifyPostUnawaited(envs) ==
    /\ pending.kind = "none"
    /\ hist.rendered < MaxVerifyRender
    /\ \E csrf \in VerifyTokens, id \in VerifyIds, type \in {"email", "lostpassword"},
          passwordsOk \in BOOLEAN, env \in envs :
          Leave(VerifyPostUnawaitedWith(csrf, id, type, passwordsOk, env), "/verify",
                Posting(Form("csrf", csrf, ~CsrfFails(session.csrfToken, csrf),
                             ~CsrfFails(session.csrfToken, csrf)), id))

\* the portal answers a DELETE /verifications/<id> that is on its way: the
\* verification is gone, or the DELETE fails and the handler's callback
\* only logs the error
VerificationDeleteAnswered ==
    \E id \in portal.deleting, ok \in BOOLEAN :
        /\ portal' = [portal EXCEPT !.deleting = @ \ {id},
                                    !.verifications = IF ok THEN @ \ {id} ELSE @]
        /\ UNCHANGED <<sv, cache, world, session, gateway, profileStore, pending, resp,
                       calls, hist>>

VerifyEnvs == {AllUp, [AllUp EXCEPT !.portal = "err"], [AllUp EXCEPT !.portal = "patch fails"]}

InitVerify ==
    /\ sv = IdleScope
    /\ world = World(ApiScopes, TRUE, TRUE, FALSE, FALSE, Nil, <<>>)
    /\ session = NewSession
    /\ portal \in {[NewPortal EXCEPT !.verifications = ids] :
                       ids \in {{VERIFICATION}, {RESET}, {VERIFICATION, RESET}}}
    /\ gateway = NewGateway
    /\ profileStore = NewProfileStore
    /\ pending = NoPending
    /\ resp = NoResponse
    /\ calls = {}
    /\ hist = NewHist
    /\ cache = ColdCache

NextVerify ==
    \/ VerifyGet(VerifyEnvs)
    \/ VerifyPostUnawaited(VerifyEnvs)
    \/ VerificationDeleteAnswered

SpecVerify == InitVerify /\ [][NextVerify]_vars

\* how often the user record was patched with verification id
PatchesWith(id) == Cardinality({i \in DOMAIN portal.patches : portal.patches[i] = id})

\* C39: a verification id is good for at most one successful POST /verify:
\* once the user was patched with it, no later request patches the user
\* with it again, whatever becomes of the DELETE that is not waited for
C39_VerificationUsedOnce ==
    \A id \in VerifyIds : PatchesWith(id) <= 1

\* ------------------------------------------------------------------------
\* Specification SpecUserId: the subject the gateway is given
\* ------------------------------------------------------------------------

UserIdWorlds ==
    {World(ApiScopes, TRUE, TRUE, ptUsers, ptScopeUrl, pool, <<>>) :
        ptUsers \in BOOLEAN, ptScopeUrl \in BOOLEAN, pool \in {Nil, POOL}}

\* the identity provider names the portal user, or a federated user by its
\* customId; it hands over a profile of its own
UserIdEnvs ==
    {[AllUp EXCEPT !.idp = "okprofile"], [AllUp EXCEPT !.idp = "custom"]}

UserIdQueries ==
    {Query(CID, rt, REDIRECT, Undefined, Nil) : rt \in {"code", "token"}}

UserIdRequests ==
    {TokenRequest("password", CID, SECRET, NoKey, sc, USER, PASSWORD, NoKey) :
        sc \in {Undefined, <<"r">>}}

InitUserId == InitServer(UserIdWorlds)

NextUserId ==
    \/ PostToken(UserIdRequests, UserIdEnvs)
    \/ Authorize(UserIdQueries, {[AllUp EXCEPT !.idp = "okprofile"]})
    \/ Login({[AllUp EXCEPT !.idp = "okprofile"]})
    \/ RegisterTokenOrCodeDone

SpecUserId == InitUserId /\ [][NextUserId]_vars

\* userid names somebody: it is not empty, and where it has the form
\* sub=<subject> the subject is neither empty nor the text of null or
\* undefined
NamesSubject(userid) ==
    /\ userid # <<>>
    /\ userid[1] = "sub=" =>
           /\ Len(userid) >= 2
           /\ userid[2] \notin {"null", "undefined", ""}

\* C40: the authenticated_userid the gateway is sent by the password grant
\* and by the authorize flow never carries a null, undefined or empty
\* subject, whatever passthroughUsers, the registration pool and the
\* identity provider's answer are
C40_SubjectNeverNull ==
    \A c \in GatewayCalls :
        c.grant \in {"password", "code", "token"} => NamesSubject(c.userid)

====
